---- MODULE Spec2Model ----
(***************************************************************************)
(* Structured-output extraction and recovery pipeline of the AI flows      *)
(* (analyzeEnergyImage, analyzeInspirationImage, designSuggestions,        *)
(* analyzeUserProfile, generateDesignSuggestionsWithPollinations,          *)
(* analyzeInspirationWithPollinations).                                    *)
(*                                                                         *)
(* Strings are sequences of units.  A unit of a model reply is one of      *)
(* "{", "}", "txt" (prose), "123" (a JSON number literal) or a member      *)
(* token standing for a comma separated run of "key": value members.       *)
(* A unit of a field value is a character; " " is the only whitespace.     *)
(***************************************************************************)
EXTENDS Integers, Sequences, FiniteSets, TLC

(***************************************************************************)
(* Bounds                                                                  *)
(***************************************************************************)
\* longest run of "{", "}", "txt" units before and after the body of a reply
MaxPad == 2

(***************************************************************************)
(* JavaScript string and array primitives                                  *)
(***************************************************************************)
Min(a, b) == IF a < b THEN a ELSE b
Max(a, b) == IF a > b THEN a ELSE b

\* String.prototype.indexOf(ch): 0-based index of the first ch, -1 if none
IndexOf(s, ch) ==
  IF \E i \in 1..Len(s) : s[i] = ch
    THEN (CHOOSE i \in 1..Len(s) : s[i] = ch /\ \A j \in 1..(i - 1) : s[j] # ch) - 1
    ELSE -1

\* String.prototype.lastIndexOf(ch): 0-based index of the last ch, -1 if none
LastIndexOf(s, ch) ==
  IF \E i \in 1..Len(s) : s[i] = ch
    THEN (CHOOSE i \in 1..Len(s) : s[i] = ch /\ \A j \in (i + 1)..Len(s) : s[j] # ch) - 1
    ELSE -1

\* String.prototype.substring(start, end): clamps both to 0..length and
\* swaps them when start > end
Substring(s, start, end) ==
  LET a  == Min(Max(start, 0), Len(s))
      b  == Min(Max(end, 0), Len(s))
      lo == Min(a, b)
      hi == Max(a, b)
  IN  SubSeq(s, lo + 1, hi)

\* String.prototype.trim()
RECURSIVE TrimStart(_)
TrimStart(s) == IF s # <<>> /\ Head(s) = " " THEN TrimStart(Tail(s)) ELSE s
RECURSIVE TrimEnd(_)
TrimEnd(s) ==
  IF s # <<>> /\ s[Len(s)] = " " THEN TrimEnd(SubSeq(s, 1, Len(s) - 1)) ELSE s
Trim(s) == TrimEnd(TrimStart(s))

(***************************************************************************)
(* JSON values: tagged records, the tag being the type name Zod reports    *)
(***************************************************************************)
JStr(s) == [k |-> "string", s |-> s]
JNum(n) == [k |-> "number", n |-> n]
JArr(a) == [k |-> "array", a |-> a]
JObj(o) == [k |-> "object", o |-> o]
Undefined == [k |-> "undefined"]

\* the object with no keys
EmptyObject == [key \in {} |-> Undefined]

\* property read: obj.key, undefined when the key is absent
Get(o, key) == IF key \in DOMAIN o THEN o[key] ELSE Undefined

\* property write: obj.key = v
Put(o, key, v) == (key :> v) @@ o

\* JavaScript truthiness of the values that occur (Boolean(v), v || ..., if (v))
Truthy(v) ==
  /\ v.k \notin {"undefined", "null"}
  /\ v.k = "string" => v.s # <<>>
  /\ v.k = "number" => v.n # 0

\* array indices as they appear in a Zod issue path
IdxStr(i) == IF i = 1 THEN "0" ELSE IF i = 2 THEN "1" ELSE IF i = 3 THEN "2" ELSE "n"

(***************************************************************************)
(* Zod: schemas as data, safeParse as a recursive walk                     *)
(***************************************************************************)
ZString == [t |-> "string"]
ZNumber == [t |-> "number"]
ZEnum(options) == [t |-> "enum", options |-> options]
\* z.array(el), with .min(min).max(max) when max >= 0
ZArray(el, min, max) == [t |-> "array", el |-> el, min |-> min, max |-> max]
\* z.object(shape): keys in declaration order, opt the keys marked .optional()
ZObject(keys, shape, opt) == [t |-> "object", keys |-> keys, shape |-> shape, opt |-> opt]

Issue(code, path, expected, received) ==
  [code |-> code, path |-> path, expected |-> expected, received |-> received]

RECURSIVE ZodParse(_, _, _)
RECURSIVE ZodParseKeys(_, _, _, _)
RECURSIVE ZodParseElems(_, _, _, _)

RECURSIVE ZodParseKeysFirstIssue(_, _, _, _)
\* a walk of the members that stops reporting at the first member in error
ZodParseKeysFirstIssue(schema, o, i, path) ==
  IF i > Len(schema.keys) THEN [issues |-> <<>>, data |-> EmptyObject]
  ELSE LET key  == schema.keys[i]
           v    == Get(o, key)
           rest == ZodParseKeysFirstIssue(schema, o, i + 1, path)
       IN  IF v.k = "undefined" /\ key \in schema.opt THEN rest
           ELSE LET r == ZodParse(schema.shape[key], v, path \o <<key>>)
                IN  [issues |-> IF r.issues # <<>> THEN r.issues ELSE rest.issues,
                     data   |-> Put(rest.data, key, r.data)]

\* the members of an object schema, in order; unknown keys are stripped, an
\* optional key that is absent stays absent
ZodParseKeys(schema, o, i, path) ==
  IF i > Len(schema.keys) THEN [issues |-> <<>>, data |-> EmptyObject]
  ELSE LET key  == schema.keys[i]
           v    == Get(o, key)
           rest == ZodParseKeys(schema, o, i + 1, path)
       IN  IF v.k = "undefined" /\ key \in schema.opt THEN rest
           ELSE LET r == ZodParse(schema.shape[key], v, path \o <<key>>)
                IN  [issues |-> r.issues \o rest.issues,
                     data   |-> Put(rest.data, key, r.data)]

\* the elements of an array, in order
ZodParseElems(el, a, i, path) ==
  IF i > Len(a) THEN [issues |-> <<>>, data |-> <<>>]
  ELSE LET r    == ZodParse(el, a[i], path \o <<IdxStr(i)>>)
           rest == ZodParseElems(el, a, i + 1, path)
       IN  [issues |-> r.issues \o rest.issues, data |-> <<r.data>> \o rest.data]

\* schema._parse(value): every issue found is collected, none aborts the walk
\* of the sibling members
ZodParse(schema, v, path) ==
  CASE schema.t = "string" ->
         IF v.k = "string" THEN [issues |-> <<>>, data |-> v]
         ELSE [issues |-> <<Issue("invalid_type", path, "string", v.k)>>, data |-> Undefined]
    [] schema.t = "number" ->
         IF v.k = "number" THEN [issues |-> <<>>, data |-> v]
         ELSE [issues |-> <<Issue("invalid_type", path, "number", v.k)>>, data |-> Undefined]
    [] schema.t = "enum" ->
         IF v.k # "string"
           THEN [issues |-> <<Issue("invalid_type", path, "enum", v.k)>>, data |-> Undefined]
         ELSE IF v.s \in schema.options THEN [issues |-> <<>>, data |-> v]
         ELSE [issues |-> <<Issue("invalid_enum_value", path, "enum", v.k)>>, data |-> Undefined]
    [] schema.t = "array" ->
         IF v.k # "array"
           THEN [issues |-> <<Issue("invalid_type", path, "array", v.k)>>, data |-> Undefined]
         ELSE LET r    == ZodParseElems(schema.el, v.a, 1, path)
                  size == IF Len(v.a) < schema.min
                            THEN <<Issue("too_small", path, "array", v.k)>>
                          ELSE IF schema.max >= 0 /\ Len(v.a) > schema.max
                            THEN <<Issue("too_big", path, "array", v.k)>>
                          ELSE <<>>
              IN  [issues |-> size \o r.issues, data |-> JArr(r.data)]
    [] schema.t = "object" ->
         IF v.k # "object"
           THEN [issues |-> <<Issue("invalid_type", path, "object", v.k)>>, data |-> Undefined]
         ELSE LET r == ZodParseKeys(schema, v.o, 1, path)
              IN  [issues |-> r.issues, data |-> JObj(r.data)]

\* schema.strict().safeParse(value): a key the schema does not declare is an issue
SafeParseStrict(schema, v) ==
  LET r     == ZodParse(schema, v, <<>>)
      extra == IF /\ schema.t = "object"
                  /\ v.k = "object"
                  /\ \E key \in DOMAIN v.o : \A n \in 1..Len(schema.keys) : schema.keys[n] # key
                 THEN <<Issue("unrecognized_keys", <<>>, "never", "object")>>
                 ELSE <<>>
  IN  IF r.issues \o extra = <<>>
        THEN [success |-> TRUE, data |-> r.data, errors |-> <<>>]
        ELSE [success |-> FALSE, data |-> Undefined, errors |-> r.issues \o extra]

\* schema.safeParse(value): {success: true, data} or {success: false, error}
SafeParse(schema, v) ==
  LET r == ZodParse(schema, v, <<>>)
  IN  IF r.issues = <<>>
        THEN [success |-> TRUE, data |-> r.data, errors |-> <<>>]
        ELSE [success |-> FALSE, data |-> Undefined, errors |-> r.issues]

(***************************************************************************)
(* The output contracts                                                    *)
(***************************************************************************)
AnalysisTypeSchema ==
  ZEnum({<<"energyField">>, <<"crystalIdentification">>,
         <<"chakraAssociation">>, <<"environmentalEnergy">>})

IdentifiedCrystalSchema ==
  ZObject(<<"name", "confidence", "details">>,
          [name |-> ZString, confidence |-> ZNumber, details |-> ZString],
          {"confidence", "details"})

EnergyImageAnalysisDetailsSchema ==
  ZObject(<<"energyObservations", "identificationNotes", "chakraReasoning",
            "environmentAssessment">>,
          [energyObservations |-> ZString, identificationNotes |-> ZString,
           chakraReasoning |-> ZString, environmentAssessment |-> ZString],
          {"energyObservations", "identificationNotes", "chakraReasoning",
           "environmentAssessment"})

EnergyImageAnalysisOutputSchema ==
  ZObject(<<"analysisType", "summary", "details", "identifiedCrystals",
            "associatedChakras", "colorPalette">>,
          [analysisType |-> AnalysisTypeSchema, summary |-> ZString,
           details |-> EnergyImageAnalysisDetailsSchema,
           identifiedCrystals |-> ZArray(IdentifiedCrystalSchema, 0, -1),
           associatedChakras |-> ZArray(ZString, 0, -1),
           colorPalette |-> ZArray(ZString, 0, -1)],
          {"details", "identifiedCrystals", "associatedChakras", "colorPalette"})

DesignRecommendationDetailsSchema ==
  ZObject(<<"overallTheme", "keyElementsAndShapes", "textureAndPatternIdeas",
            "potentialMaterials", "narrativeOrSymbolism">>,
          [overallTheme |-> ZString,
           keyElementsAndShapes |-> ZArray(ZString, 0, -1),
           textureAndPatternIdeas |-> ZArray(ZString, 0, -1),
           potentialMaterials |-> ZArray(ZString, 0, -1),
           narrativeOrSymbolism |-> ZString],
          {"potentialMaterials", "narrativeOrSymbolism"})

AnalyzeInspirationImageOutputSchema ==
  ZObject(<<"designRecommendations", "colorPalette">>,
          [designRecommendations |-> DesignRecommendationDetailsSchema,
           colorPalette |-> ZArray(ZString, 0, -1)],
          {})

DesignSchemeSchema ==
  ZObject(<<"schemeTitle", "mainStoneDescription", "auxiliaryStonesDescription",
            "chainOrStructureDescription", "otherDetails">>,
          [schemeTitle |-> ZString, mainStoneDescription |-> ZString,
           auxiliaryStonesDescription |-> ZString,
           chainOrStructureDescription |-> ZString, otherDetails |-> ZString],
          {"auxiliaryStonesDescription", "chainOrStructureDescription", "otherDetails"})

DesignSuggestionsOutputSchema ==
  ZObject(<<"personalizedIntroduction", "designConcept", "designSchemes",
            "accessorySuggestions", "photographySettingSuggestions",
            "concludingRemarks">>,
          [personalizedIntroduction |-> ZString, designConcept |-> ZString,
           designSchemes |-> ZArray(DesignSchemeSchema, 1, 3),
           accessorySuggestions |-> ZString,
           photographySettingSuggestions |-> ZString,
           concludingRemarks |-> ZString],
          {"personalizedIntroduction", "concludingRemarks"})

CrystalReasoningDetailsSchema ==
  ZObject(<<"personalityFit", "chakraSupport", "goalAlignment", "holisticSynergy">>,
          [personalityFit |-> ZString, chakraSupport |-> ZString,
           goalAlignment |-> ZString, holisticSynergy |-> ZString],
          {})

RecommendedCrystalSchema ==
  ZObject(<<"name", "reasoningDetails", "matchScore">>,
          [name |-> ZString, reasoningDetails |-> CrystalReasoningDetailsSchema,
           matchScore |-> ZNumber],
          {"matchScore"})

CrystalCombinationSchema ==
  ZObject(<<"combination", "synergyEffect">>,
          [combination |-> ZArray(ZString, 0, -1), synergyEffect |-> ZString],
          {})

UserProfileDataSchema ==
  ZObject(<<"name", "coreEnergyInsights", "inferredZodiac", "inferredChineseZodiac",
            "inferredElement", "inferredPlanet", "mbtiLikeType", "chakraAnalysis",
            "recommendedCrystals", "crystalCombinations">>,
          [name |-> ZString, coreEnergyInsights |-> ZString,
           inferredZodiac |-> ZString, inferredChineseZodiac |-> ZString,
           inferredElement |-> ZString, inferredPlanet |-> ZString,
           mbtiLikeType |-> ZString, chakraAnalysis |-> ZString,
           recommendedCrystals |-> ZArray(RecommendedCrystalSchema, 0, -1),
           crystalCombinations |-> ZArray(CrystalCombinationSchema, 0, -1)],
          {"name", "recommendedCrystals", "crystalCombinations"})

(***************************************************************************)
(* The flows                                                               *)
(***************************************************************************)
Flows == {"analyzeEnergyImage", "analyzeInspirationImage", "designSuggestions",
          "analyzeUserProfile", "generateDesignSuggestionsWithPollinations",
          "analyzeInspirationWithPollinations"}

\* the flows that validate the parsed reply against their output schema
ValidatingFlows == Flows \ {"analyzeInspirationWithPollinations"}

\* the schema each flow hands to safeParse
OutputSchema(f) ==
  CASE f = "analyzeEnergyImage" -> EnergyImageAnalysisOutputSchema
    [] f = "analyzeInspirationImage" -> AnalyzeInspirationImageOutputSchema
    [] f = "designSuggestions" -> DesignSuggestionsOutputSchema
    [] f = "generateDesignSuggestionsWithPollinations" -> DesignSuggestionsOutputSchema
    [] f = "analyzeUserProfile" -> UserProfileDataSchema
    [] f = "analyzeInspirationWithPollinations" -> AnalyzeInspirationImageOutputSchema

(***************************************************************************)
(* The cleaning each flow applies to validationResult.data                 *)
(***************************************************************************)
\* const safeClean = (text?: string): string => (text || '').trim()
safeClean(text) == IF Truthy(text) THEN JStr(Trim(text.s)) ELSE JStr(<<>>)

\* array.map(f)
MapSeq(a, F(_)) == [i \in 1..Len(a) |-> F(a[i])]

\* array.filter(Boolean).map(safeClean): the two calls in the other order
FilterThenClean(arr) == JArr(MapSeq(SelectSeq(arr.a, Truthy), safeClean))

\* array.map(safeClean).filter(Boolean)
CleanStrings(arr) == JArr(SelectSeq(MapSeq(arr.a, safeClean), Truthy))

\* array.filter(Boolean)
FilterStrings(arr) == JArr(SelectSeq(arr.a, Truthy))

\* obj.key = safeClean(obj.key)
CleanKey(o, key) == Put(o, key, safeClean(Get(o, key)))

\* if (obj.key) { obj.key = safeClean(obj.key) }
CleanKeyIfSet(o, key) == IF Truthy(Get(o, key)) THEN CleanKey(o, key) ELSE o

RECURSIVE CleanKeys(_, _)
CleanKeys(o, keys) ==
  IF keys = <<>> THEN o ELSE CleanKeys(CleanKey(o, Head(keys)), Tail(keys))

RECURSIVE CleanKeysIfSet(_, _)
CleanKeysIfSet(o, keys) ==
  IF keys = <<>> THEN o ELSE CleanKeysIfSet(CleanKeyIfSet(o, Head(keys)), Tail(keys))

\* identifiedCrystals.map(...) without the spread of the crystal's other members
CleanIdentifiedCrystalNoSpread(crystal) ==
  JObj([name |-> safeClean(Get(crystal.o, "name")),
        details |-> safeClean(Get(crystal.o, "details"))])

CleanIdentifiedCrystal(crystal) == JObj(CleanKeys(crystal.o, <<"name", "details">>))

CleanEnergy(data) ==
  LET d1 == CleanKey(data.o, "summary")
      d2 == IF Truthy(Get(d1, "details"))
              THEN Put(d1, "details",
                       JObj(CleanKeysIfSet(d1["details"].o,
                              <<"energyObservations", "identificationNotes",
                                "chakraReasoning", "environmentAssessment">>)))
              ELSE d1
      d3 == IF Truthy(Get(d2, "identifiedCrystals"))
              THEN Put(d2, "identifiedCrystals",
                       JArr(MapSeq(d2["identifiedCrystals"].a, CleanIdentifiedCrystal)))
              ELSE d2
      d4 == IF Truthy(Get(d3, "associatedChakras"))
              THEN Put(d3, "associatedChakras", CleanStrings(d3["associatedChakras"]))
              ELSE d3
      d5 == IF Truthy(Get(d4, "colorPalette"))
              THEN Put(d4, "colorPalette", FilterStrings(d4["colorPalette"]))
              ELSE d4
  IN  JObj(d5)

CleanInspiration(data) ==
  LET r  == data.o["designRecommendations"].o
      r1 == CleanKey(r, "overallTheme")
      r2 == Put(r1, "keyElementsAndShapes", CleanStrings(r1["keyElementsAndShapes"]))
      r3 == Put(r2, "textureAndPatternIdeas", CleanStrings(r2["textureAndPatternIdeas"]))
      r4 == Put(r3, "potentialMaterials",
                IF Get(r3, "potentialMaterials").k = "undefined"
                  THEN JArr(<<>>)
                  ELSE CleanStrings(r3["potentialMaterials"]))
      r5 == CleanKey(r4, "narrativeOrSymbolism")
      d1 == Put(data.o, "designRecommendations", JObj(r5))
  IN  JObj(Put(d1, "colorPalette", FilterStrings(d1["colorPalette"])))

CleanDesignScheme(scheme) ==
  JObj(CleanKeys(scheme.o,
         <<"schemeTitle", "mainStoneDescription", "auxiliaryStonesDescription",
           "chainOrStructureDescription", "otherDetails">>))

CleanDesign(data) ==
  LET d1 == CleanKeys(data.o,
              <<"personalizedIntroduction", "designConcept", "accessorySuggestions",
                "photographySettingSuggestions", "concludingRemarks">>)
  IN  JObj(Put(d1, "designSchemes",
               JArr(MapSeq(d1["designSchemes"].a, CleanDesignScheme))))

CleanRecommendedCrystal(crystal) ==
  LET rd == Get(crystal.o, "reasoningDetails")
      o  == IF rd.k = "object" THEN rd.o ELSE EmptyObject
  IN  JObj(Put(CleanKey(crystal.o, "name"), "reasoningDetails",
               JObj([personalityFit  |-> safeClean(Get(o, "personalityFit")),
                     chakraSupport   |-> safeClean(Get(o, "chakraSupport")),
                     goalAlignment   |-> safeClean(Get(o, "goalAlignment")),
                     holisticSynergy |-> safeClean(Get(o, "holisticSynergy"))])))

CleanCrystalCombination(combo) == JObj(CleanKey(combo.o, "synergyEffect"))

\* (array || [])
OrEmpty(v) == IF Truthy(v) THEN v.a ELSE <<>>

CleanProfile(data) ==
  LET d1 == CleanKeys(data.o,
              <<"name", "coreEnergyInsights", "inferredZodiac", "inferredChineseZodiac",
                "inferredElement", "inferredPlanet", "mbtiLikeType", "chakraAnalysis">>)
      d2 == Put(d1, "recommendedCrystals",
                JArr(MapSeq(OrEmpty(Get(d1, "recommendedCrystals")),
                            CleanRecommendedCrystal)))
  IN  JObj(Put(d2, "crystalCombinations",
               JArr(MapSeq(OrEmpty(Get(d2, "crystalCombinations")),
                           CleanCrystalCombination))))

\* the cleaning of flow f
Clean(f, data) ==
  CASE f = "analyzeEnergyImage" -> CleanEnergy(data)
    [] f = "analyzeInspirationImage" -> CleanInspiration(data)
    [] f = "designSuggestions" -> CleanDesign(data)
    [] f = "generateDesignSuggestionsWithPollinations" -> CleanDesign(data)
    [] f = "analyzeUserProfile" -> CleanProfile(data)

(***************************************************************************)
(* Replies of the text service                                             *)
(***************************************************************************)
sA   == <<"a">>
sPad == <<" ", "a", " ">>
sWs  == <<" ">>
sE   == <<>>

MemberTokens == {"A", "B", "X", "E"}

EnergyMembers(tok) ==
  CASE tok = "A" -> [analysisType |-> JStr(<<"crystalIdentification">>),
                     summary |-> JStr(sPad)]
    [] tok = "B" -> [details |-> JObj([energyObservations |-> JStr(sPad),
                                       chakraReasoning |-> JStr(sWs)]),
                     identifiedCrystals |->
                       JArr(<<JObj([name |-> JStr(sPad), confidence |-> JNum(90)])>>),
                     associatedChakras |-> JArr(<<JStr(sPad), JStr(sWs), JStr(sE)>>),
                     colorPalette |-> JArr(<<JStr(sA), JStr(sE), JStr(sWs)>>)]
    [] tok = "X" -> [analysisType |-> JStr(<<"bogus">>), summary |-> JNum(5)]
    [] tok = "E" -> [foo |-> JStr(sA)]

InspirationMembers(tok) ==
  CASE tok = "A" -> [designRecommendations |->
                       JObj([overallTheme |-> JStr(sPad),
                             keyElementsAndShapes |-> JArr(<<JStr(sPad), JStr(sE)>>),
                             textureAndPatternIdeas |-> JArr(<<JStr(sWs), JStr(sA)>>)]),
                     colorPalette |-> JArr(<<JStr(sA), JStr(sE)>>)]
    [] tok = "B" -> [designRecommendations |->
                       JObj([overallTheme |-> JStr(sA),
                             keyElementsAndShapes |-> JArr(<<>>),
                             textureAndPatternIdeas |-> JArr(<<JStr(sA)>>),
                             potentialMaterials |-> JArr(<<JStr(sE), JStr(sPad)>>),
                             narrativeOrSymbolism |-> JStr(sPad)])]
    [] tok = "X" -> [designRecommendations |-> JObj([overallTheme |-> JNum(5)]),
                     colorPalette |-> JStr(sA)]
    [] tok = "E" -> [foo |-> JStr(sA)]

DesignMembers(tok) ==
  CASE tok = "A" -> [designConcept |-> JStr(sPad),
                     designSchemes |->
                       JArr(<<JObj([schemeTitle |-> JStr(sPad),
                                    mainStoneDescription |-> JStr(sPad)])>>),
                     accessorySuggestions |-> JStr(sA),
                     photographySettingSuggestions |-> JStr(sWs)]
    [] tok = "B" -> [personalizedIntroduction |-> JStr(sPad),
                     concludingRemarks |-> JStr(sE),
                     designSchemes |->
                       JArr(<<JObj([schemeTitle |-> JStr(sA),
                                    mainStoneDescription |-> JStr(sA),
                                    auxiliaryStonesDescription |-> JStr(sPad),
                                    otherDetails |-> JStr(sWs)]),
                              JObj([schemeTitle |-> JStr(sPad),
                                    mainStoneDescription |-> JStr(sA)])>>)]
    [] tok = "X" -> [designConcept |-> JNum(5), designSchemes |-> JArr(<<>>)]
    [] tok = "E" -> [foo |-> JStr(sA)]

ProfileMembers(tok) ==
  CASE tok = "A" -> [coreEnergyInsights |-> JStr(sPad), inferredZodiac |-> JStr(sA),
                     inferredChineseZodiac |-> JStr(sA), inferredElement |-> JStr(sWs),
                     inferredPlanet |-> JStr(sE), mbtiLikeType |-> JStr(sA),
                     chakraAnalysis |-> JStr(sPad)]
    [] tok = "B" -> [name |-> JStr(sPad),
                     recommendedCrystals |->
                       JArr(<<JObj([name |-> JStr(sPad),
                                    reasoningDetails |->
                                      JObj([personalityFit |-> JStr(sPad),
                                            chakraSupport |-> JStr(sA),
                                            goalAlignment |-> JStr(sWs),
                                            holisticSynergy |-> JStr(sE)]),
                                    matchScore |-> JNum(80)])>>),
                     crystalCombinations |->
                       JArr(<<JObj([combination |-> JArr(<<JStr(sPad), JStr(sE), JStr(sA)>>),
                                    synergyEffect |-> JStr(sPad)])>>)]
    [] tok = "X" -> [coreEnergyInsights |-> JNum(5),
                     crystalCombinations |->
                       JArr(<<JObj([combination |-> JArr(<<JNum(1)>>)])>>)]
    [] tok = "E" -> [foo |-> JStr(sA)]

\* the members a member token of a reply to flow f stands for
Members(f, tok) ==
  CASE f = "analyzeEnergyImage" -> EnergyMembers(tok)
    [] f \in {"analyzeInspirationImage", "analyzeInspirationWithPollinations"} ->
         InspirationMembers(tok)
    [] f \in {"designSuggestions", "generateDesignSuggestionsWithPollinations"} ->
         DesignMembers(tok)
    [] f = "analyzeUserProfile" -> ProfileMembers(tok)

\* all sequences over S of length at most n
RECURSIVE SeqsUpTo(_, _)
SeqsUpTo(S, n) ==
  IF n = 0 THEN {<<>>}
  ELSE LET shorter == SeqsUpTo(S, n - 1)
       IN  shorter \cup {<<x>> \o t : x \in S, t \in {u \in shorter : Len(u) = n - 1}}

PadUnits == {"{", "}", "txt"}
Pads == SeqsUpTo(PadUnits, MaxPad)

\* what stands between the leading and the trailing units of a reply
Bodies == {<<>>, <<"123">>, <<"A">>, <<"B">>, <<"X">>, <<"A", "B">>,
           <<"A", "X">>, <<"X", "A">>, <<"A", "E">>}

\* the replies the text service may give
RawResponses == {pre \o body \o post : pre \in Pads, body \in Bodies, post \in Pads}

(***************************************************************************)
(* JSON.parse                                                              *)
(***************************************************************************)
RECURSIVE MergeMembers(_, _)
\* members in order, a later duplicate key replacing the earlier one
MergeMembers(f, toks) ==
  IF toks = <<>> THEN EmptyObject
  ELSE Members(f, toks[Len(toks)]) @@ MergeMembers(f, SubSeq(toks, 1, Len(toks) - 1))

\* JSON.parse(text): the value, or a SyntaxError (ok = FALSE)
JsonParse(f, text) ==
  IF text = <<"123">> THEN [ok |-> TRUE, value |-> JNum(123)]
  ELSE IF /\ Len(text) >= 2
          /\ text[1] = "{"
          /\ text[Len(text)] = "}"
          /\ \A i \in 2..(Len(text) - 1) : text[i] \in MemberTokens
    THEN [ok |-> TRUE, value |-> JObj(MergeMembers(f, SubSeq(text, 2, Len(text) - 1)))]
  ELSE [ok |-> FALSE, value |-> Undefined]

\* the "Robust JSON Parsing" block: first '{' to last '}', then JSON.parse;
\* ok = FALSE when the block throws
ExtractJson(f, responseText) ==
  LET jsonStart == IndexOf(responseText, "{")
      jsonEnd   == LastIndexOf(responseText, "}")
  IN  IF jsonStart = -1 \/ jsonEnd = -1
        THEN [ok |-> FALSE, value |-> Undefined]
        ELSE JsonParse(f, Substring(responseText, jsonStart, jsonEnd + 1))

(***************************************************************************)
(* Diagnostics and fallback records                                        *)
(***************************************************************************)
\* lang === 'zh' ? zh : en
Localized(l, en, zh) == IF l = "zh" THEN zh ELSE en

\* the text in front of the raw reply in the catch block of the parsing
ParseErrorPrefix(f, l) ==
  CASE f = "analyzeEnergyImage" ->
         Localized(l, "Sorry, the AI returned an invalid format for the energy analysis. Raw text:",
                      "zh: invalid format, cannot parse the energy analysis. Raw text:")
    [] f = "analyzeInspirationImage" ->
         Localized(l, "Sorry, the AI returned an invalid format for the inspiration analysis. Raw text:",
                      "zh: invalid format, cannot parse the inspiration analysis. Raw text:")
    [] f = "designSuggestions" ->
         Localized(l, "Sorry, the AI returned an invalid format for the design suggestions. Raw text:",
                      "zh: invalid format, cannot parse the design suggestions. Raw text:")
    [] f = "generateDesignSuggestionsWithPollinations" ->
         Localized(l, "Sorry, the AI returned data in an incorrect format, and the design suggestions could not be parsed. Here is the raw text from the AI:",
                      "zh: incorrect format, cannot parse the design suggestions. This is the raw text the AI returned:")
    [] f = "analyzeUserProfile" ->
         Localized(l, "Sorry, the AI returned an invalid format for the user profile. Raw text:",
                      "zh: invalid format, cannot parse the user profile. Raw text:")

\* the text in front of the Zod issues in the branch of a failed validation
ValidationErrorPrefix(f, l) ==
  CASE f = "analyzeEnergyImage" ->
         Localized(l, "The energy analysis from the AI had an unexpected structure. Details:",
                      "zh: the energy analysis structure is not as expected. Details:")
    [] f = "analyzeInspirationImage" ->
         Localized(l, "The inspiration analysis from the AI had an unexpected structure. Details:",
                      "zh: the inspiration analysis structure is not as expected. Details:")
    [] f = "designSuggestions" ->
         Localized(l, "The design suggestions from the AI had an unexpected structure. Details:",
                      "zh: the design suggestions structure is not as expected. Details:")
    [] f = "generateDesignSuggestionsWithPollinations" ->
         Localized(l, "The AI returned a data structure that did not match expectations. Error details:",
                      "zh: the data structure is not as expected. Error details:")
    [] f = "analyzeUserProfile" ->
         Localized(l, "The user profile from the AI had an unexpected structure. Details:",
                      "zh: the user profile structure is not as expected. Details:")

\* the text in front of the cause in the error the outer catch throws
TransportErrorPrefix(f, l) ==
  CASE f = "analyzeEnergyImage" ->
         Localized(l, "Failed to call energy analysis service:", "zh: failed to call the energy analysis service:")
    [] f = "analyzeInspirationImage" ->
         Localized(l, "Failed to call inspiration analysis service:", "zh: failed to call the inspiration analysis service:")
    [] f = "designSuggestions" ->
         Localized(l, "Failed to call design suggestions service:", "zh: failed to call the design suggestions service:")
    [] f = "generateDesignSuggestionsWithPollinations" ->
         Localized(l, "Failed to call design suggestion service:", "zh: failed to call the design suggestions service:")
    [] f = "analyzeUserProfile" ->
         Localized(l, "Failed to call user profile analysis service:", "zh: failed to call the user profile analysis service:")
    [] f = "analyzeInspirationWithPollinations" ->
         Localized(l, "Inspiration analysis failed:", "zh: inspiration analysis failed:")

\* JSON.stringify(issue)
StringifyIssue(issue) ==
  <<"code:", issue.code, "expected:", issue.expected, "received:", issue.received, "path:">>
    \o issue.path

RECURSIVE StringifyIssues(_)
\* JSON.stringify(validationResult.error.errors)
StringifyIssues(issues) ==
  IF issues = <<>> THEN <<>>
  ELSE StringifyIssue(Head(issues)) \o StringifyIssues(Tail(issues))

\* a || b on strings
OrElse(s, d) == IF s # <<>> THEN s ELSE d

\* the record every return statement of the two failure branches builds,
\* errorText being the diagnostic and kind the branch ("parse", "validation")
FallbackRecord(f, in, l, kind, errorText) ==
  CASE f = "analyzeEnergyImage" ->
         JObj([analysisType |-> JStr(in.analysisType), summary |-> JStr(errorText),
               details |-> JObj(EmptyObject), identifiedCrystals |-> JArr(<<>>),
               associatedChakras |-> JArr(<<>>), colorPalette |-> JArr(<<>>)])
    [] f = "analyzeInspirationImage" ->
         JObj([designRecommendations |->
                 JObj([overallTheme |-> JStr(errorText),
                       keyElementsAndShapes |-> JArr(<<>>),
                       textureAndPatternIdeas |-> JArr(<<>>),
                       potentialMaterials |-> JArr(<<>>),
                       narrativeOrSymbolism |-> JStr(<<>>)]),
               colorPalette |-> JArr(<<>>)])
    [] f = "designSuggestions" ->
         JObj([personalizedIntroduction |-> JStr(errorText), designConcept |-> JStr(<<>>),
               designSchemes |-> JArr(<<>>), accessorySuggestions |-> JStr(<<>>),
               photographySettingSuggestions |-> JStr(<<>>),
               concludingRemarks |-> JStr(<<>>)])
    [] f = "generateDesignSuggestionsWithPollinations" ->
         JObj([designConcept |->
                 JStr(<<IF kind = "parse"
                          THEN Localized(l, "Parsing Error", "zh: parsing error")
                          ELSE Localized(l, "Validation Error", "zh: validation failed")>>),
               personalizedIntroduction |->
                 JStr(<<Localized(l, "Could not generate personalized introduction.",
                                     "zh: could not generate personalized introduction")>>),
               designSchemes |->
                 JArr(<<JObj([schemeTitle |-> JStr(<<Localized(l, "Error", "zh: error")>>),
                              mainStoneDescription |-> JStr(errorText)])>>),
               accessorySuggestions |-> JStr(<<>>),
               photographySettingSuggestions |-> JStr(<<>>),
               concludingRemarks |-> JStr(<<>>)])
    [] f = "analyzeUserProfile" ->
         JObj([name |-> JStr(OrElse(in.name, <<IF kind = "parse" THEN "Error"
                                                ELSE "Validation Error">>)),
               coreEnergyInsights |-> JStr(errorText), inferredZodiac |-> JStr(<<>>),
               inferredChineseZodiac |-> JStr(<<>>), inferredElement |-> JStr(<<>>),
               inferredPlanet |-> JStr(<<>>), mbtiLikeType |-> JStr(<<>>),
               chakraAnalysis |-> JStr(<<>>), recommendedCrystals |-> JArr(<<>>),
               crystalCombinations |-> JArr(<<>>)])

\* a catch block that leaves the reply out of its diagnostic
ParseFallbackWithoutReply(f, in, l, responseText) ==
  IF f = "analyzeInspirationWithPollinations"
    THEN JObj([designRecommendations |->
                 JObj([overallTheme |-> JStr(<<>>),
                       keyElementsAndShapes |-> JArr(<<>>),
                       textureAndPatternIdeas |-> JArr(<<>>),
                       potentialMaterials |-> JArr(<<>>),
                       narrativeOrSymbolism |-> JStr(<<>>)]),
               colorPalette |-> JArr(<<>>)])
    ELSE FallbackRecord(f, in, l, "parse", <<ParseErrorPrefix(f, l)>>)

\* the value returned when the parsing block throws
ParseFallback(f, in, l, responseText) ==
  IF f = "analyzeInspirationWithPollinations"
    THEN JObj([designRecommendations |->
                 JObj([overallTheme |-> JStr(Substring(responseText, 0, 200)),
                       keyElementsAndShapes |-> JArr(<<>>),
                       textureAndPatternIdeas |-> JArr(<<>>),
                       potentialMaterials |-> JArr(<<>>),
                       narrativeOrSymbolism |-> JStr(responseText)]),
               colorPalette |-> JArr(<<JStr(<<"#8B4513">>), JStr(<<"#DAA520">>),
                                       JStr(<<"#CD853F">>)>>)])
    ELSE FallbackRecord(f, in, l, "parse", <<ParseErrorPrefix(f, l)>> \o responseText)

\* a validation branch that lists the issues in English only
ValidationFallbackTerse(f, in, l, errors) ==
  FallbackRecord(f, in, l, "validation",
                 <<ValidationErrorPrefix(f, l)>>
                   \o (IF l = "zh" THEN <<>> ELSE StringifyIssues(errors)))

\* the value returned when safeParse reports errors
ValidationFallback(f, in, l, errors) ==
  FallbackRecord(f, in, l, "validation",
                 <<ValidationErrorPrefix(f, l)>> \o StringifyIssues(errors))

\* new Error(...) of the outer catch; generateText rejects with
\* Error('Failed to generate text') whatever went wrong
TransportError(f, l) ==
  [k |-> "error", message |-> <<TransportErrorPrefix(f, l), "Failed to generate text">>]

(***************************************************************************)
(* State: one record of locals per invocation of a flow                    *)
(***************************************************************************)
Invocations == {"first", "second"}

Languages == {"en", "zh", "fr", "undefined"}

VARIABLES
  flow,             \* the flow function invoked
  input,            \* its argument
  pc,               \* the stage the invocation is in
  lang,             \* const lang = input.language || 'en'
  request,          \* the parameters handed to pollinationsService.generateText
  calls,            \* number of calls of pollinationsService.generateText
  responseContent,  \* the text generateText resolved with
  parsedJson,       \* let parsedJson
  validationResult, \* const validationResult = Schema.safeParse(parsedJson)
  promise,          \* state of the promise generateText returned
  result,           \* the value returned to, or the error thrown at, the caller
  outcome,          \* the return or throw statement that ended the invocation
  path,             \* the stages the invocation has entered, in order
  http,             \* the HTTP exchange of one call of PollinationsService, seen from inside
  caller,           \* a component that calls a flow: its React state and its calls in flight
  calc,             \* a scoring utility of mbti-utils: its argument and its return value
  preview,          \* DesignPreview: its prop, its React state and its generations in flight
  wizard,           \* PersonalizedQuestionnaire: the step shown and the handlers in flight
  auth,             \* AuthProvider: its React state and the 'user' entry of localStorage
  i18n              \* LanguageProvider: its React state and the 'language' entry of localStorage

vars == <<flow, input, pc, lang, request, calls, responseContent, parsedJson,
          validationResult, promise, result, outcome, path, http,
          caller, calc, preview, wizard, auth, i18n>>

\* the variables of the components around the flows
appVars == <<caller, calc, preview, wizard, auth, i18n>>

\* a component that is not mounted, a utility that is not called
Idle == [stage |-> "none"]

\* nothing around the flows is looked into
AppIdle ==
  /\ caller = Idle
  /\ calc = Idle
  /\ preview = Idle
  /\ wizard = Idle
  /\ auth = Idle
  /\ i18n = Idle

NoInput == [language |-> "undefined", analysisType |-> <<>>, name |-> <<>>]
NoRequest == [system |-> <<>>, prompt |-> <<>>]
NoValidation == [success |-> FALSE, data |-> Undefined, errors |-> <<>>]
NoResult == [kind |-> "none", value |-> Undefined]
\* no call of generateText is looked into
NoExchange ==
  [stage |-> "none",
   params |-> [system |-> Undefined, temperature |-> Undefined, max_tokens |-> Undefined],
   method |-> "none", fetches |-> 0, network |-> "none", status |-> 0,
   body |-> <<>>, text |-> <<>>, error |-> ""]

\* the arguments a flow is called with
Inputs(f) ==
  {[language |-> l, analysisType |-> t, name |-> n] :
     l \in Languages,
     t \in IF f = "analyzeEnergyImage" THEN {<<"energyField">>} ELSE {<<>>},
     n \in IF f = "analyzeUserProfile" THEN {<<>>, <<"Ann">>} ELSE {<<>>}}

Init ==
  /\ \E f \in Flows : \E in \in Inputs(f) :
       /\ flow = [i \in Invocations |-> IF i = "first" THEN f ELSE "none"]
       /\ input = [i \in Invocations |-> IF i = "first" THEN in ELSE NoInput]
  /\ pc = [i \in Invocations |-> IF i = "first" THEN "Compiling" ELSE "Idle"]
  /\ lang = [i \in Invocations |-> ""]
  /\ request = [i \in Invocations |-> NoRequest]
  /\ calls = [i \in Invocations |-> 0]
  /\ responseContent = [i \in Invocations |-> <<>>]
  /\ parsedJson = [i \in Invocations |-> Undefined]
  /\ validationResult = [i \in Invocations |-> NoValidation]
  /\ promise = [i \in Invocations |-> "none"]
  /\ result = [i \in Invocations |-> NoResult]
  /\ outcome = [i \in Invocations |-> "pending"]
  /\ path = [i \in Invocations |-> IF i = "first" THEN <<"Compiling">> ELSE <<>>]
  /\ http = NoExchange
  /\ AppIdle

(***************************************************************************)
(* The stages of an invocation                                             *)
(***************************************************************************)
\* the invocation enters a stage; the exchange inside generateText is not its business
Goto(i, stage) ==
  /\ pc' = [pc EXCEPT ![i] = stage]
  /\ path' = [path EXCEPT ![i] = Append(@, stage)]
  /\ UNCHANGED <<http, appVars>>

\* input.language || 'en'
LangOf(in) == IF in.language = "undefined" THEN "en" ELSE in.language

\* the language the two prompts name
PromptLanguage(f, l) ==
  IF f = "analyzeInspirationWithPollinations"
    THEN (IF l = "zh" THEN "Chinese" ELSE "English")
    ELSE l

\* systemPrompt and userPrompt, then await pollinationsService.generateText(...)
Compile(i) ==
  /\ pc[i] = "Compiling"
  /\ lang' = [lang EXCEPT ![i] = LangOf(input[i])]
  /\ request' = [request EXCEPT ![i] =
                   [system |-> <<"respond in", PromptLanguage(flow[i], LangOf(input[i])),
                                 "schema of", flow[i]>>,
                    prompt |-> <<"all text in", PromptLanguage(flow[i], LangOf(input[i]))>>]]
  /\ calls' = [calls EXCEPT ![i] = @ + 1]
  /\ promise' = [promise EXCEPT ![i] = "pending"]
  /\ Goto(i, "AwaitingResponse")
  /\ UNCHANGED <<flow, input, responseContent, parsedJson, validationResult, result, outcome>>

\* generateText resolves with the body of the HTTP response
ClientResolve(i) ==
  /\ pc[i] = "AwaitingResponse"
  /\ \E raw \in RawResponses : responseContent' = [responseContent EXCEPT ![i] = raw]
  /\ promise' = [promise EXCEPT ![i] = "fulfilled"]
  /\ Goto(i, "Extracting")
  /\ UNCHANGED <<flow, input, lang, request, calls, parsedJson, validationResult, result, outcome>>

\* generateText rejects
ClientReject(i) ==
  /\ pc[i] = "AwaitingResponse"
  /\ promise' = [promise EXCEPT ![i] = "rejected"]
  /\ Goto(i, "TransportFailed")
  /\ UNCHANGED <<flow, input, lang, request, calls, responseContent, parsedJson,
                 validationResult, result, outcome>>

\* the other of the two invocations
Other(i) == IF i = "first" THEN "second" ELSE "first"

\* a parsing block that reads a module-level buffer to which every reply is
\* appended
ExtractShared(i) ==
  /\ pc[i] = "Extracting"
  /\ LET text == (IF promise[Other(i)] = "fulfilled" THEN responseContent[Other(i)] ELSE <<>>)
                   \o responseContent[i]
         r == IF flow[i] = "analyzeInspirationWithPollinations"
                THEN JsonParse(flow[i], text)
                ELSE ExtractJson(flow[i], text)
     IN  IF ~r.ok
           THEN /\ Goto(i, "ExtractionFailed")
                /\ UNCHANGED <<parsedJson, result, outcome>>
         ELSE IF flow[i] = "analyzeInspirationWithPollinations"
           THEN /\ parsedJson' = [parsedJson EXCEPT ![i] = r.value]
                /\ result' = [result EXCEPT ![i] = [kind |-> "returned", value |-> r.value]]
                /\ outcome' = [outcome EXCEPT ![i] = "unvalidated"]
                /\ Goto(i, "Done")
         ELSE /\ parsedJson' = [parsedJson EXCEPT ![i] = r.value]
              /\ Goto(i, "Validating")
              /\ UNCHANGED <<result, outcome>>
  /\ UNCHANGED <<flow, input, promise, lang, request, calls, responseContent, validationResult>>

\* the inner try block; analyzeInspirationWithPollinations parses the whole
\* reply and returns what JSON.parse gives
Extract(i) ==
  /\ pc[i] = "Extracting"
  /\ LET r == IF flow[i] = "analyzeInspirationWithPollinations"
                THEN JsonParse(flow[i], responseContent[i])
                ELSE ExtractJson(flow[i], responseContent[i])
     IN  IF ~r.ok
           THEN /\ Goto(i, "ExtractionFailed")
                /\ UNCHANGED <<parsedJson, result, outcome>>
         ELSE IF flow[i] = "analyzeInspirationWithPollinations"
           THEN /\ parsedJson' = [parsedJson EXCEPT ![i] = r.value]
                /\ result' = [result EXCEPT ![i] = [kind |-> "returned", value |-> r.value]]
                /\ outcome' = [outcome EXCEPT ![i] = "unvalidated"]
                /\ Goto(i, "Done")
         ELSE /\ parsedJson' = [parsedJson EXCEPT ![i] = r.value]
              /\ Goto(i, "Validating")
              /\ UNCHANGED <<result, outcome>>
  /\ UNCHANGED <<flow, input, promise, lang, request, calls, responseContent, validationResult>>

\* an inner catch block that rethrows
ExtractionRethrow(i) ==
  /\ pc[i] = "ExtractionFailed"
  /\ result' = [result EXCEPT ![i] =
                  [kind |-> "thrown", value |-> TransportError(flow[i], lang[i])]]
  /\ outcome' = [outcome EXCEPT ![i] = "transportFailure"]
  /\ Goto(i, "Failed")
  /\ UNCHANGED <<flow, input, promise, lang, request, calls, responseContent, parsedJson, validationResult>>

\* the inner catch block
ExtractionFallback(i) ==
  /\ pc[i] = "ExtractionFailed"
  /\ result' = [result EXCEPT ![i] =
                  [kind |-> "returned",
                   value |-> ParseFallback(flow[i], input[i], lang[i], responseContent[i])]]
  /\ outcome' = [outcome EXCEPT ![i] = "extractionFallback"]
  /\ Goto(i, "Done")
  /\ UNCHANGED <<flow, input, promise, lang, request, calls, responseContent, parsedJson, validationResult>>

\* Schema.parse(parsedJson), which throws into the outer catch block
ValidateThrowing(i) ==
  /\ pc[i] = "Validating"
  /\ LET r == SafeParse(OutputSchema(flow[i]), parsedJson[i])
     IN  /\ validationResult' = [validationResult EXCEPT ![i] = r]
         /\ Goto(i, IF r.success THEN "Normalizing" ELSE "TransportFailed")
  /\ UNCHANGED <<flow, input, promise, lang, request, calls, responseContent, parsedJson, result, outcome>>

\* const validationResult = Schema.safeParse(parsedJson)
Validate(i) ==
  /\ pc[i] = "Validating"
  /\ LET r == SafeParse(OutputSchema(flow[i]), parsedJson[i])
     IN  /\ validationResult' = [validationResult EXCEPT ![i] = r]
         /\ Goto(i, IF r.success THEN "Normalizing" ELSE "ValidationFailed")
  /\ UNCHANGED <<flow, input, promise, lang, request, calls, responseContent, parsedJson, result, outcome>>

\* a success branch that cleans only while a module-level flag is unset, the
\* flag being set by the first call that cleans
NormalizeOnce(i) ==
  /\ pc[i] = "Normalizing"
  /\ LET data == IF outcome[Other(i)] = "success"
                   THEN validationResult[i].data
                   ELSE Clean(flow[i], validationResult[i].data)
     IN  /\ validationResult' = [validationResult EXCEPT ![i].data = data]
         /\ result' = [result EXCEPT ![i] = [kind |-> "returned", value |-> data]]
  /\ outcome' = [outcome EXCEPT ![i] = "success"]
  /\ Goto(i, "Done")
  /\ UNCHANGED <<flow, input, promise, lang, request, calls, responseContent, parsedJson>>

\* if (validationResult.success): clean validationResult.data in place, return it
Normalize(i) ==
  /\ pc[i] = "Normalizing"
  /\ LET data == Clean(flow[i], validationResult[i].data)
     IN  /\ validationResult' = [validationResult EXCEPT ![i].data = data]
         /\ result' = [result EXCEPT ![i] = [kind |-> "returned", value |-> data]]
  /\ outcome' = [outcome EXCEPT ![i] = "success"]
  /\ Goto(i, "Done")
  /\ UNCHANGED <<flow, input, promise, lang, request, calls, responseContent, parsedJson>>

\* an else branch that asks the text service again
ValidationRetry(i) ==
  /\ pc[i] = "ValidationFailed"
  /\ calls' = [calls EXCEPT ![i] = @ + 1]
  /\ promise' = [promise EXCEPT ![i] = "pending"]
  /\ Goto(i, "AwaitingResponse")
  /\ UNCHANGED <<flow, input, lang, request, responseContent, parsedJson,
                 validationResult, result, outcome>>

\* else: the record carrying the Zod issues
ValidationFailure(i) ==
  /\ pc[i] = "ValidationFailed"
  /\ result' = [result EXCEPT ![i] =
                  [kind |-> "returned",
                   value |-> ValidationFallback(flow[i], input[i], lang[i],
                                                validationResult[i].errors)]]
  /\ outcome' = [outcome EXCEPT ![i] = "validationFallback"]
  /\ Goto(i, "Done")
  /\ UNCHANGED <<flow, input, promise, lang, request, calls, responseContent, parsedJson, validationResult>>

\* an outer catch block that answers with a fallback record
PropagateAsFallback(i) ==
  /\ pc[i] = "TransportFailed"
  /\ result' = [result EXCEPT ![i] =
                  [kind |-> "returned",
                   value |-> ParseFallback(flow[i], input[i], lang[i],
                                           <<"Failed to generate text">>)]]
  /\ outcome' = [outcome EXCEPT ![i] = "extractionFallback"]
  /\ Goto(i, "Done")
  /\ UNCHANGED <<flow, input, promise, lang, request, calls, responseContent, parsedJson, validationResult>>

\* the outer catch block: throw new Error(localized message)
Propagate(i) ==
  /\ pc[i] = "TransportFailed"
  /\ result' = [result EXCEPT ![i] =
                  [kind |-> "thrown", value |-> TransportError(flow[i], lang[i])]]
  /\ outcome' = [outcome EXCEPT ![i] = "transportFailure"]
  /\ Goto(i, "Failed")
  /\ UNCHANGED <<flow, input, promise, lang, request, calls, responseContent, parsedJson, validationResult>>

Next ==
  \E i \in Invocations :
    \/ Compile(i)
    \/ ClientResolve(i)
    \/ ClientReject(i)
    \/ Extract(i)
    \/ ExtractionFallback(i)
    \/ Validate(i)
    \/ Normalize(i)
    \/ ValidationFailure(i)
    \/ Propagate(i)

Spec == Init /\ [][Next]_vars

(***************************************************************************)
(* The same call made a second time, in either language, against a text    *)
(* service that gives the reply it gave the first time                     *)
(***************************************************************************)
Terminal == {"Done", "Failed"}

\* the caller invokes the flow again once the first call has ended, with the
\* same argument but for the language tag
InvokeAgain ==
  /\ pc["first"] \in Terminal
  /\ pc["second"] = "Idle"
  /\ \E l \in {"en", "zh"} :
       input' = [input EXCEPT !["second"] = [input["first"] EXCEPT !.language = l]]
  /\ flow' = [flow EXCEPT !["second"] = flow["first"]]
  /\ Goto("second", "Compiling")
  /\ UNCHANGED <<lang, request, calls, responseContent, parsedJson, validationResult,
                 promise, result, outcome>>

\* generateText resolves with the text it resolved with the first time
ClientReplay ==
  /\ pc["second"] = "AwaitingResponse"
  /\ promise["first"] = "fulfilled"
  /\ responseContent' = [responseContent EXCEPT !["second"] = responseContent["first"]]
  /\ promise' = [promise EXCEPT !["second"] = "fulfilled"]
  /\ Goto("second", "Extracting")
  /\ UNCHANGED <<flow, input, lang, request, calls, parsedJson, validationResult, result, outcome>>

\* generateText rejects as it rejected the first time
ClientRejectAgain ==
  /\ pc["second"] = "AwaitingResponse"
  /\ promise["first"] = "rejected"
  /\ promise' = [promise EXCEPT !["second"] = "rejected"]
  /\ Goto("second", "TransportFailed")
  /\ UNCHANGED <<flow, input, lang, request, calls, responseContent, parsedJson,
                 validationResult, result, outcome>>

\* the steps of the flow's own code
FlowStep(i) ==
  \/ Compile(i)
  \/ Extract(i)
  \/ ExtractionFallback(i)
  \/ Validate(i)
  \/ Normalize(i)
  \/ ValidationFailure(i)
  \/ Propagate(i)

InitTwice == Init /\ input["first"].language \in {"en", "zh"}

NextTwice ==
  \/ FlowStep("first")
  \/ ClientResolve("first")
  \/ ClientReject("first")
  \/ InvokeAgain
  \/ FlowStep("second")
  \/ ClientReplay
  \/ ClientRejectAgain

SpecTwice == InitTwice /\ [][NextTwice]_vars

(***************************************************************************)
(* Two calls in flight at once, of any two flows, their steps interleaved  *)
(* in any order                                                            *)
(***************************************************************************)
\* the replies the text service gives to the calls in flight: prose, a valid
\* object, a valid object with nested members, an object that fails validation
ConcurrentReplies ==
  {<<"txt">>, <<"{", "A", "}">>, <<"txt", "{", "A", "B", "}">>, <<"{", "X", "}">>}

\* generateText resolves for invocation i
ClientAnswer(i) ==
  /\ pc[i] = "AwaitingResponse"
  /\ \E raw \in ConcurrentReplies : responseContent' = [responseContent EXCEPT ![i] = raw]
  /\ promise' = [promise EXCEPT ![i] = "fulfilled"]
  /\ Goto(i, "Extracting")
  /\ UNCHANGED <<flow, input, lang, request, calls, parsedJson, validationResult, result, outcome>>

InitConcurrent ==
  /\ \E f \in [Invocations -> Flows] :
       /\ flow = f
       /\ \E in \in [Invocations -> UNION {Inputs(g) : g \in Flows}] :
            /\ \A i \in Invocations : in[i] \in Inputs(f[i]) /\ in[i].language \in {"en", "zh"}
            /\ input = in
  /\ pc = [i \in Invocations |-> "Compiling"]
  /\ lang = [i \in Invocations |-> ""]
  /\ request = [i \in Invocations |-> NoRequest]
  /\ calls = [i \in Invocations |-> 0]
  /\ responseContent = [i \in Invocations |-> <<>>]
  /\ parsedJson = [i \in Invocations |-> Undefined]
  /\ validationResult = [i \in Invocations |-> NoValidation]
  /\ promise = [i \in Invocations |-> "none"]
  /\ result = [i \in Invocations |-> NoResult]
  /\ outcome = [i \in Invocations |-> "pending"]
  /\ path = [i \in Invocations |-> <<"Compiling">>]
  /\ http = NoExchange
  /\ AppIdle

NextConcurrent ==
  \E i \in Invocations :
    \/ FlowStep(i)
    \/ ClientAnswer(i)
    \/ ClientReject(i)

SpecConcurrent == InitConcurrent /\ [][NextConcurrent]_vars

(***************************************************************************)
(* Vocabulary of the properties                                            *)
(***************************************************************************)
\* the four flows behind the application's AI features
MainFlows == {"analyzeEnergyImage", "analyzeInspirationImage", "designSuggestions",
              "analyzeUserProfile"}

Fallbacks == {"extractionFallback", "validationFallback"}

\* the invocation has returned a value to its caller
Returned(i) == pc[i] = "Done" /\ result[i].kind = "returned"

\* what Schema.safeParse made of the parsed reply, before any cleaning
Validated(i) == SafeParse(OutputSchema(flow[i]), parsedJson[i]).data

RECURSIVE StringFieldsTrimmed(_, _)
\* every string field of v, at any depth, has no leading or trailing whitespace
StringFieldsTrimmed(schema, v) ==
  CASE schema.t = "string" -> v.k = "string" => v.s = Trim(v.s)
    [] schema.t = "object" ->
         v.k = "object" =>
           \A n \in 1..Len(schema.keys) :
             StringFieldsTrimmed(schema.shape[schema.keys[n]], Get(v.o, schema.keys[n]))
    [] schema.t = "array" ->
         (v.k = "array" /\ schema.el.t # "string") =>
           \A n \in 1..Len(v.a) : StringFieldsTrimmed(schema.el, v.a[n])
    [] OTHER -> TRUE

RECURSIVE StringArraysFiltered(_, _)
\* no string array of v, at any depth, holds an empty string
StringArraysFiltered(schema, v) ==
  CASE schema.t = "object" ->
         v.k = "object" =>
           \A n \in 1..Len(schema.keys) :
             StringArraysFiltered(schema.shape[schema.keys[n]], Get(v.o, schema.keys[n]))
    [] schema.t = "array" ->
         v.k = "array" =>
           \A n \in 1..Len(v.a) :
             IF schema.el.t = "string" THEN v.a[n].s # <<>>
             ELSE StringArraysFiltered(schema.el, v.a[n])
    [] OTHER -> TRUE

NonEmptyString(v) == v.s # <<>>
TrimString(v) == JStr(Trim(v.s))

RECURSIVE Canon(_, _)
RECURSIVE CanonKeys(_, _, _)
RECURSIVE CanonElems(_, _, _)
\* v up to what normalization may change: strings trimmed, string arrays
\* trimmed and filtered, an absent optional member as its empty default
Canon(schema, v) ==
  CASE schema.t = "string" -> IF v.k = "string" THEN JStr(Trim(v.s)) ELSE JStr(<<>>)
    [] schema.t = "array" ->
         IF v.k # "array" THEN JArr(<<>>)
         ELSE IF schema.el.t = "string"
           THEN JArr(SelectSeq(MapSeq(v.a, TrimString), NonEmptyString))
         ELSE JArr(CanonElems(schema.el, v.a, 1))
    [] schema.t = "object" ->
         JObj(CanonKeys(schema, IF v.k = "object" THEN v.o ELSE EmptyObject, 1))
    [] OTHER -> v
CanonKeys(schema, o, n) ==
  IF n > Len(schema.keys) THEN EmptyObject
  ELSE Put(CanonKeys(schema, o, n + 1), schema.keys[n],
           Canon(schema.shape[schema.keys[n]], Get(o, schema.keys[n])))
CanonElems(el, a, n) ==
  IF n > Len(a) THEN <<>> ELSE <<Canon(el, a[n])>> \o CanonElems(el, a, n + 1)

(***************************************************************************)
(* C1. For each of the four main flows, a reply whose first-'{'-to-last-'}'*)
(* span parses and passes the contract is answered with normalize(parsed): *)
(* the validated value with every string field trimmed and every string    *)
(* array filtered of empty entries, and nothing else changed.              *)
(* Violated by analyzeUserProfile, which never filters                     *)
(* crystalCombinations[].combination.                                      *)
(***************************************************************************)
C1_OutputIsNormalized ==
  \A i \in Invocations :
    (flow[i] \in MainFlows /\ Returned(i) /\ outcome[i] = "success") =>
      LET schema == OutputSchema(flow[i])
          out    == result[i].value
      IN  /\ Canon(schema, out) = Canon(schema, Validated(i))
          /\ StringFieldsTrimmed(schema, out)
          /\ StringArraysFiltered(schema, out)

RECURSIVE GetPath(_, _)
\* the member of v at a path of keys and array indices, undefined when absent
GetPath(v, p) ==
  IF p = <<>> THEN v
  ELSE IF v.k = "object" THEN GetPath(Get(v.o, Head(p)), Tail(p))
  ELSE IF v.k = "array" /\ Head(p) = "0" /\ Len(v.a) >= 1 THEN GetPath(v.a[1], Tail(p))
  ELSE Undefined

\* where the failure branches of flow f put their diagnostic
PrimaryPath(f) ==
  CASE f = "analyzeEnergyImage" -> <<"summary">>
    [] f = "analyzeInspirationImage" -> <<"designRecommendations", "overallTheme">>
    [] f = "designSuggestions" -> <<"personalizedIntroduction">>
    [] f = "generateDesignSuggestionsWithPollinations" ->
         <<"designSchemes", "0", "mainStoneDescription">>
    [] f = "analyzeUserProfile" -> <<"coreEnergyInsights">>

\* the text of the primary narrative field of a returned record
PrimaryText(i) == GetPath(result[i].value, PrimaryPath(flow[i]))

RECURSIVE StringFieldAt(_, _, _)
\* the contract declares a string at path p; with required, no member on the
\* way to it is optional
StringFieldAt(schema, p, required) ==
  IF p = <<>> THEN schema.t = "string"
  ELSE CASE schema.t = "object" ->
              /\ \E n \in 1..Len(schema.keys) : schema.keys[n] = Head(p)
              /\ required => Head(p) \notin schema.opt
              /\ StringFieldAt(schema.shape[Head(p)], Tail(p), required)
         [] schema.t = "array" -> StringFieldAt(schema.el, Tail(p), required)
         [] OTHER -> FALSE

\* the language of the diagnostics for a language tag
TagLanguage(i) == IF input[i].language = "zh" THEN "zh" ELSE "en"

HasNoBraces(text) == IndexOf(text, "{") = -1 \/ LastIndexOf(text, "}") = -1

\* the reply has arrived
Replied(i) == promise[i] = "fulfilled"

Span(text) == Substring(text, IndexOf(text, "{"), LastIndexOf(text, "}") + 1)

(***************************************************************************)
(* C3.  A reply that has both braces but whose span does not parse (the    *)
(* last '}' may stand before the first '{') is answered with a fallback    *)
(* record as a normal value; the invocation never throws.                  *)
(***************************************************************************)
C3_UnparsableSpanIsAbsorbed ==
  \A i \in Invocations :
    (/\ flow[i] \in ValidatingFlows
     /\ Replied(i)
     /\ ~HasNoBraces(responseContent[i])
     /\ ~JsonParse(flow[i], Span(responseContent[i])).ok) =>
      /\ result[i].kind # "thrown"
      /\ pc[i] \in {"Extracting", "ExtractionFailed", "Done"}
      /\ pc[i] = "Done" =>
           /\ result[i].kind = "returned"
           /\ outcome[i] = "extractionFallback"
           /\ PrimaryText(i) =
                JStr(<<ParseErrorPrefix(flow[i], TagLanguage(i))>> \o responseContent[i])

\* a reply whose last '}' stands before its first '{' has been answered
C3_Witness ==
  \E i \in Invocations :
    /\ Returned(i)
    /\ flow[i] = "analyzeUserProfile"
    /\ LastIndexOf(responseContent[i], "}") # -1
    /\ LastIndexOf(responseContent[i], "}") < IndexOf(responseContent[i], "{")
    /\ outcome[i] = "extractionFallback"

\* the JSON kind a member schema accepts
KindOf(schema) == IF schema.t = "enum" THEN "string" ELSE schema.t

\* the members of the contract the parsed value gets wrong at the top level:
\* the value itself when it is no object, else every declared key that is
\* missing though required or that holds a value of another kind
TopViolations(schema, v) ==
  IF v.k # "object" THEN {[path |-> <<>>, expected |-> "object", received |-> v.k]}
  ELSE {[path |-> <<schema.keys[n]>>,
         expected |-> schema.shape[schema.keys[n]].t,
         received |-> Get(v.o, schema.keys[n]).k] :
          n \in {m \in 1..Len(schema.keys) :
                   LET val == Get(v.o, schema.keys[m])
                   IN  /\ ~(val.k = "undefined" /\ schema.keys[m] \in schema.opt)
                       /\ val.k # KindOf(schema.shape[schema.keys[m]])}}

\* the text names the path of the violation, the kind expected and the kind found
Rendered(text, viol) ==
  \E n \in 1..Len(text) :
    LET last == n + 4 + Len(viol.path)
    IN  /\ last <= Len(text)
        /\ SubSeq(text, n, last) =
             <<"expected:", viol.expected, "received:", viol.received, "path:">>
               \o viol.path
        /\ last < Len(text) => text[last + 1] = "code:"

(***************************************************************************)
(* C4.  When the parsed JSON does not match the contract, the flow returns *)
(* a fallback record whose primary narrative field holds the localized     *)
(* message followed by the list of violations, every one of them and not   *)
(* only the first, each with its field path and the expected kind.         *)
(***************************************************************************)
C4_EveryViolationIsRendered ==
  \A i \in Invocations :
    (flow[i] \in ValidatingFlows /\ pc[i] = "Done" /\ parsedJson[i] # Undefined) =>
      LET viols == TopViolations(OutputSchema(flow[i]), parsedJson[i])
          text  == PrimaryText(i)
      IN  viols # {} =>
            /\ result[i].kind = "returned"
            /\ outcome[i] = "validationFallback"
            /\ text.k = "string"
            /\ text.s # <<>>
            /\ Head(text.s) = ValidationErrorPrefix(flow[i], TagLanguage(i))
            /\ \A viol \in viols : Rendered(Tail(text.s), viol)

\* a reply missing two or more required members has been answered
C4_Witness ==
  \E i \in Invocations :
    /\ Returned(i)
    /\ flow[i] = "analyzeEnergyImage"
    /\ outcome[i] = "validationFallback"
    /\ parsedJson[i].k = "object"
    /\ Cardinality(TopViolations(OutputSchema(flow[i]), parsedJson[i])) >= 2

(***************************************************************************)
(* C5.  When the call of pollinationsService.generateText fails, the flow  *)
(* throws an error whose message is localized by the language tag and      *)
(* returns nothing; a fallback record is only ever produced after the      *)
(* reply arrived and its extraction or its validation failed.              *)
(***************************************************************************)
C5_TransportFailurePropagates ==
  \A i \in Invocations :
    /\ promise[i] = "rejected" =>
         /\ result[i].kind # "returned"
         /\ outcome[i] \notin Fallbacks
         /\ pc[i] \in {"TransportFailed", "Failed"}
         /\ pc[i] = "Failed" =>
              /\ result[i].kind = "thrown"
              /\ result[i].value.k = "error"
              /\ Head(result[i].value.message) =
                   TransportErrorPrefix(flow[i], TagLanguage(i))
    /\ outcome[i] \in Fallbacks =>
         /\ promise[i] = "fulfilled"
         /\ \E n \in 1..Len(path[i]) : path[i][n] \in {"ExtractionFailed", "ValidationFailed"}
         /\ \A n \in 1..Len(path[i]) : path[i][n] # "TransportFailed"

\* a failed call has been thrown at a caller who asked for Chinese
C5_Witness ==
  \E i \in Invocations :
    /\ pc[i] = "Failed"
    /\ promise[i] = "rejected"
    /\ input[i].language = "zh"
    /\ result[i].kind = "thrown"

(***************************************************************************)
(* C6 as stated.  Every fallback record a flow returns, after a failed     *)
(* extraction or a failed validation, passes the flow's own output schema  *)
(* (for design suggestions, the 1-to-3 bound on designSchemes included).   *)
(* Violated by designSuggestions, whose fallback has designSchemes: [].    *)
(***************************************************************************)
C6_FallbackSatisfiesContract ==
  \A i \in Invocations :
    (flow[i] \in ValidatingFlows /\ Returned(i) /\ outcome[i] \in Fallbacks) =>
      SafeParse(OutputSchema(flow[i]), result[i].value).success

(***************************************************************************)
(* C7 as stated.  Every value handed to the caller has passed the contract *)
(* validator or is a locally built fallback; this covers                   *)
(* analyzeInspirationWithPollinations too.  Violated by that flow, which   *)
(* returns JSON.parse(response) as it is.                                  *)
(***************************************************************************)
C7_NothingUnvalidatedIsReturned ==
  \A i \in Invocations :
    Returned(i) =>
      \/ outcome[i] \in Fallbacks
      \/ /\ validationResult[i].success
         /\ SafeParse(OutputSchema(flow[i]), parsedJson[i]).success

\* the four courses an invocation may take, a failure state being entered
\* from the stage that found the failure
Courses ==
  {<<"Compiling", "AwaitingResponse", "Extracting", "Validating", "Normalizing", "Done">>,
   <<"Compiling", "AwaitingResponse", "Extracting", "ExtractionFailed", "Done">>,
   <<"Compiling", "AwaitingResponse", "Extracting", "Validating", "ValidationFailed", "Done">>,
   <<"Compiling", "AwaitingResponse", "TransportFailed", "Failed">>}

IsPrefix(s, t) == Len(s) <= Len(t) /\ SubSeq(t, 1, Len(s)) = s

\* the invocation has ended
Ended(i) == pc[i] \in Terminal

\* what holds of the stages in every state
StagesInv ==
  \A i \in Invocations :
    flow[i] \in ValidatingFlows =>
      /\ path[i] # <<>>
      /\ pc[i] = path[i][Len(path[i])]
      /\ \E course \in Courses : IsPrefix(path[i], course)
      /\ \A m, n \in 1..Len(path[i]) : path[i][m] = path[i][n] => m = n
      /\ Ended(i) <=> result[i].kind # "none"
      /\ Ended(i) <=> outcome[i] # "pending"
      /\ pc[i] = "Done" =>
           /\ result[i].kind = "returned"
           /\ outcome[i] \in Fallbacks <=>
                \E n \in 1..Len(path[i]) :
                  path[i][n] \in {"ExtractionFailed", "ValidationFailed"}
      /\ pc[i] = "Failed" => result[i].kind = "thrown"

(***************************************************************************)
(* C8.  An invocation goes Compiling -> AwaitingResponse and then takes    *)
(* exactly one of the courses Extracting -> Validating -> Normalizing ->   *)
(* Done, ExtractionFailed -> Done with a fallback, ValidationFailed ->     *)
(* Done with a fallback, TransportFailed -> Failed; it never re-enters a   *)
(* stage, and it hands its result to the caller in Done or Failed, where   *)
(* it stops, and nowhere else.                                             *)
(***************************************************************************)
C8_StagesAreLinear ==
  /\ []StagesInv
  /\ [][\A i \in Invocations : Ended(i) => UNCHANGED <<pc[i], result[i], outcome[i]>>]_vars

\* an invocation has taken the whole course of a well-formed reply
C8_Witness ==
  \E i \in Invocations :
    /\ flow[i] = "analyzeEnergyImage"
    /\ path[i] = <<"Compiling", "AwaitingResponse", "Extracting", "Validating",
                   "Normalizing", "Done">>
    /\ outcome[i] = "success"

\* how often the invocation has entered a stage
Entered(i, stage) == Cardinality({n \in 1..Len(path[i]) : path[i][n] = stage})

(***************************************************************************)
(* C9.  One invocation calls pollinationsService.generateText exactly      *)
(* once: nothing is retried after a failed call, a failed extraction or a  *)
(* failed validation, and waiting for that call is the only place where    *)
(* the invocation is suspended.                                            *)
(***************************************************************************)
C9_SingleCallSingleSuspension ==
  \A i \in Invocations :
    /\ calls[i] = IF pc[i] \in {"Idle", "Compiling"} THEN 0 ELSE 1
    /\ Entered(i, "AwaitingResponse") <= 1
    /\ promise[i] = "pending" <=> pc[i] = "AwaitingResponse"
    /\ pc[i] = "AwaitingResponse" => ~ENABLED FlowStep(i)

\* a validation has failed and the invocation has ended after its one call
C9_Witness ==
  \E i \in Invocations :
    /\ pc[i] = "Done"
    /\ outcome[i] = "validationFallback"
    /\ flow[i] = "designSuggestions"
    /\ calls[i] = 1

\* the Chinese diagnostics of flow f paired with their English counterparts
Diagnostics(f) ==
  (IF f \in ValidatingFlows
     THEN {<<ParseErrorPrefix(f, "zh"), ParseErrorPrefix(f, "en")>>,
           <<ValidationErrorPrefix(f, "zh"), ValidationErrorPrefix(f, "en")>>}
     ELSE {})
    \cup {<<TransportErrorPrefix(f, "zh"), TransportErrorPrefix(f, "en")>>}
    \cup (IF f = "generateDesignSuggestionsWithPollinations"
            THEN {<<"zh: parsing error", "Parsing Error">>,
                  <<"zh: validation failed", "Validation Error">>,
                  <<"zh: could not generate personalized introduction",
                    "Could not generate personalized introduction.">>,
                  <<"zh: error", "Error">>}
            ELSE {})

\* a unit of text with a Chinese diagnostic replaced by its English counterpart
InEnglish(f, u) ==
  IF \E d \in Diagnostics(f) : d[1] = u
    THEN (CHOOSE d \in Diagnostics(f) : d[1] = u)[2]
    ELSE u

RECURSIVE Neutral(_, _)
\* a result of flow f up to the language of its diagnostics
Neutral(f, v) ==
  CASE v.k = "string" -> JStr([n \in 1..Len(v.s) |-> InEnglish(f, v.s[n])])
    [] v.k = "array"  -> JArr([n \in 1..Len(v.a) |-> Neutral(f, v.a[n])])
    [] v.k = "object" -> JObj([key \in DOMAIN v.o |-> Neutral(f, v.o[key])])
    [] v.k = "error"  ->
         [k |-> "error", message |-> [n \in 1..Len(v.message) |-> InEnglish(f, v.message[n])]]
    [] OTHER -> v

\* both calls have ended
BothEnded == pc["first"] \in Terminal /\ pc["second"] \in Terminal

(***************************************************************************)
(* C10.  Two invocations of one flow with the same input and the same raw  *)
(* reply that differ only in the language tag (en, zh) end in the same     *)
(* class (success, extraction fallback, validation fallback, transport     *)
(* failure), and their results differ in nothing but the language of the   *)
(* diagnostic text.                                                        *)
(***************************************************************************)
C10_LanguageChangesOnlyDiagnostics ==
  BothEnded =>
    /\ outcome["first"] = outcome["second"]
    /\ pc["first"] = pc["second"]
    /\ result["first"].kind = result["second"].kind
    /\ Neutral(flow["first"], result["first"].value) =
         Neutral(flow["second"], result["second"].value)
    /\ outcome["first"] \in {"success", "unvalidated"} =>
         result["first"] = result["second"]

\* the same prose reply has been answered in English and then in Chinese
C10_Witness ==
  /\ BothEnded
  /\ flow["first"] = "analyzeInspirationImage"
  /\ input["first"].language = "en"
  /\ input["second"].language = "zh"
  /\ outcome["first"] = "extractionFallback"
  /\ outcome["second"] = "extractionFallback"
  /\ result["first"] # result["second"]

\* the language the compiled prompts ask the model to answer in
RequestLanguages(i) == {request[i].system[2], request[i].prompt[2]}

(***************************************************************************)
(* C11 as stated.  When the language tag of the input is absent or is any  *)
(* value other than 'en' and 'zh', the flow uses 'en' both in the prompts  *)
(* it compiles and in its diagnostics.  Violated by the prompts of the     *)
(* five flows that interpolate ${lang}: a tag such as 'fr' is passed on.   *)
(***************************************************************************)
C11_UnrecognizedLanguageIsEnglish ==
  \A i \in Invocations :
    (pc[i] \notin {"Idle", "Compiling"} /\ input[i].language \notin {"en", "zh"}) =>
      /\ RequestLanguages(i) \subseteq {"en", "English"}
      /\ pc[i] = "Failed" =>
           Head(result[i].value.message) = TransportErrorPrefix(flow[i], "en")
      /\ (Returned(i) /\ flow[i] \in ValidatingFlows /\ outcome[i] = "extractionFallback") =>
           Head(PrimaryText(i).s) = ParseErrorPrefix(flow[i], "en")
      /\ (Returned(i) /\ flow[i] \in ValidatingFlows /\ outcome[i] = "validationFallback") =>
           Head(PrimaryText(i).s) = ValidationErrorPrefix(flow[i], "en")

\* the invocation has returned the cleaned record of a valid reply
Succeeded(i) == Returned(i) /\ outcome[i] = "success"

(***************************************************************************)
(* C12.  The cleaning of each flow is idempotent: applied to the record it *)
(* returned for a valid reply, it gives that record again.                 *)
(***************************************************************************)
C12_CleaningIsIdempotent ==
  \A i \in Invocations :
    (flow[i] \in ValidatingFlows /\ Succeeded(i)) =>
      /\ result[i].value = Clean(flow[i], Validated(i))
      /\ Clean(flow[i], result[i].value) = result[i].value

\* a reply whose record the cleaning changed has been answered
C12_Witness ==
  \E i \in Invocations :
    /\ flow[i] = "analyzeInspirationImage"
    /\ Succeeded(i)
    /\ result[i].value # Validated(i)

RECURSIVE StringArraysClean(_, _, _)
\* every string array of v at any depth, but those at the member keys in
\* except, holds only trimmed, non-empty strings
StringArraysClean(schema, v, except) ==
  CASE schema.t = "object" ->
         v.k = "object" =>
           \A n \in 1..Len(schema.keys) :
             schema.keys[n] \notin except =>
               StringArraysClean(schema.shape[schema.keys[n]], Get(v.o, schema.keys[n]),
                                 except)
    [] schema.t = "array" ->
         v.k = "array" =>
           \A n \in 1..Len(v.a) :
             IF schema.el.t = "string"
               THEN v.a[n].k = "string" /\ v.a[n].s # <<>> /\ v.a[n].s = Trim(v.a[n].s)
               ELSE StringArraysClean(schema.el, v.a[n], except)
    [] OTHER -> TRUE

(***************************************************************************)
(* C13 as stated.  In the record returned for a valid reply every string   *)
(* array of the contract, at any depth, holds only elements trimmed of     *)
(* surrounding whitespace and no element that is empty after trimming.     *)
(* Violated by colorPalette, which is filtered but not trimmed, and by     *)
(* crystalCombinations[].combination, which is not cleaned at all.         *)
(***************************************************************************)
C13_StringArraysAreClean ==
  \A i \in Invocations :
    (flow[i] \in ValidatingFlows /\ Succeeded(i)) =>
      StringArraysClean(OutputSchema(flow[i]), result[i].value, {})

RECURSIVE NonTextKept(_, _, _)
\* every number and every enum member of the record before, at any depth,
\* is in the record after with the same value
NonTextKept(schema, before, after) ==
  CASE schema.t \in {"number", "enum"} -> after = before
    [] schema.t = "object" ->
         before.k = "object" =>
           /\ after.k = "object"
           /\ \A n \in 1..Len(schema.keys) :
                NonTextKept(schema.shape[schema.keys[n]],
                            Get(before.o, schema.keys[n]), Get(after.o, schema.keys[n]))
    [] schema.t = "array" ->
         (before.k = "array" /\ schema.el.t # "string") =>
           /\ after.k = "array"
           /\ Len(after.a) = Len(before.a)
           /\ \A n \in 1..Len(before.a) : NonTextKept(schema.el, before.a[n], after.a[n])
    [] OTHER -> TRUE

(***************************************************************************)
(* C14.  Cleaning leaves every numeric and every enum member of a          *)
(* validated record as it was (analysisType, identifiedCrystals[]          *)
(* .confidence, recommendedCrystals[].matchScore); the contracts declare   *)
(* no boolean member.                                                      *)
(***************************************************************************)
C14_NonTextMembersUnchanged ==
  \A i \in Invocations :
    (flow[i] \in ValidatingFlows /\ Succeeded(i)) =>
      NonTextKept(OutputSchema(flow[i]), Validated(i), result[i].value)

\* a record with a confidence score has been cleaned and returned
C14_Witness ==
  \E i \in Invocations :
    /\ flow[i] = "analyzeEnergyImage"
    /\ Succeeded(i)
    /\ result[i].value # Validated(i)
    /\ GetPath(Validated(i), <<"identifiedCrystals", "0", "confidence">>).k = "number"
    /\ GetPath(Validated(i), <<"analysisType">>).k = "string"

\* the keys a z.object schema declares
DeclaredKeys(schema) == {schema.keys[n] : n \in 1..Len(schema.keys)}

\* an object without the members its schema does not declare
Declared(schema, v) == JObj([key \in DOMAIN v.o \cap DeclaredKeys(schema) |-> v.o[key]])

\* the parsed reply carries a key its contract does not declare
HasExtraKeys(i) ==
  /\ parsedJson[i].k = "object"
  /\ DOMAIN parsedJson[i].o \ DeclaredKeys(OutputSchema(flow[i])) # {}

(***************************************************************************)
(* C15.  A parsed value that satisfies the contract and also carries keys  *)
(* the contract does not declare is a success and not a validation         *)
(* failure: the extra keys give no violation.                              *)
(***************************************************************************)
C15_ExtraKeysAreIgnored ==
  \A i \in Invocations :
    (/\ flow[i] \in ValidatingFlows
     /\ HasExtraKeys(i)
     /\ SafeParse(OutputSchema(flow[i]), Declared(OutputSchema(flow[i]), parsedJson[i])).success) =>
      /\ pc[i] \in {"Extracting", "Validating", "Normalizing", "Done"}
      /\ pc[i] \in {"Normalizing", "Done"} => validationResult[i].success
      /\ pc[i] = "Done" => Succeeded(i)

\* a valid reply with an undeclared key has been answered
C15_Witness ==
  \E i \in Invocations :
    /\ flow[i] = "analyzeEnergyImage"
    /\ HasExtraKeys(i)
    /\ Succeeded(i)

\* the index of the first '{' and of the last '}' of the reply, -1 when absent
FirstOpen(i) == IndexOf(responseContent[i], "{")
LastClose(i) == LastIndexOf(responseContent[i], "}")

\* the reply has a first '{' and, at or after it, a last '}'
HasSpan(i) ==
  /\ FirstOpen(i) # -1
  /\ LastClose(i) # -1
  /\ FirstOpen(i) <= LastClose(i)

\* the text from the first '{' to the last '}' inclusive
InclusiveSpan(i) ==
  IF FirstOpen(i) <= LastClose(i)
    THEN SubSeq(responseContent[i], FirstOpen(i) + 1, LastClose(i) + 1)
    ELSE <<>>

\* the invocation has left the parsing block
Extracted(i) == \E n \in 1..Len(path[i]) : path[i][n] \in {"Validating", "ExtractionFailed"}

\* what C16 says of invocation i
ExtractionAsSpecified(i) ==
  (flow[i] \in ValidatingFlows /\ Extracted(i)) =>
    IF HasSpan(i) /\ JsonParse(flow[i], InclusiveSpan(i)).ok
      THEN /\ parsedJson[i] = JsonParse(flow[i], InclusiveSpan(i)).value
           /\ outcome[i] # "extractionFallback"
      ELSE /\ parsedJson[i] = Undefined
           /\ pc[i] \in {"ExtractionFailed", "Done"}
           /\ pc[i] = "Done" =>
                /\ outcome[i] = "extractionFallback"
                /\ PrimaryText(i) =
                     JStr(<<ParseErrorPrefix(flow[i], TagLanguage(i))>> \o responseContent[i])

(***************************************************************************)
(* C16 as stated.  Extraction parses exactly the text from the first '{'   *)
(* to the last '}' inclusive, and fails with an extraction error keeping   *)
(* the whole reply when either character is absent or that text does not   *)
(* parse.  Violated by a reply such as '}123{': substring swaps its        *)
(* arguments, '123' is parsed, and the reply is lost in a validation       *)
(* fallback.                                                               *)
(***************************************************************************)
C16_ExtractsInclusiveSpan == \A i \in Invocations : ExtractionAsSpecified(i)

\* what a call of flow f with argument in ends with when the text service
\* replies raw, computed on its own
Alone(f, in, raw) ==
  LET r == IF f = "analyzeInspirationWithPollinations"
             THEN JsonParse(f, raw) ELSE ExtractJson(f, raw)
      v == SafeParse(OutputSchema(f), r.value)
  IN  IF ~r.ok
        THEN [outcome |-> "extractionFallback",
              result |-> [kind |-> "returned", value |-> ParseFallback(f, in, LangOf(in), raw)]]
      ELSE IF f = "analyzeInspirationWithPollinations"
        THEN [outcome |-> "unvalidated", result |-> [kind |-> "returned", value |-> r.value]]
      ELSE IF v.success
        THEN [outcome |-> "success",
              result |-> [kind |-> "returned", value |-> Clean(f, v.data)]]
      ELSE [outcome |-> "validationFallback",
            result |-> [kind |-> "returned",
                        value |-> ValidationFallback(f, in, LangOf(in), v.errors)]]

\* what a call of flow f with argument in ends with when the text service fails
AloneFailed(f, in) ==
  [outcome |-> "transportFailure",
   result |-> [kind |-> "thrown", value |-> TransportError(f, LangOf(in))]]

\* the locals of invocation i
Locals(i) ==
  <<flow[i], input[i], pc[i], lang[i], request[i], calls[i], responseContent[i],
    parsedJson[i], validationResult[i], promise[i], result[i], outcome[i], path[i]>>

\* an ended invocation has the result its own input and its own reply give
ResultIsOwn ==
  \A i \in Invocations :
    Ended(i) =>
      [outcome |-> outcome[i], result |-> result[i]] =
        IF promise[i] = "fulfilled"
          THEN Alone(flow[i], input[i], responseContent[i])
          ELSE AloneFailed(flow[i], input[i])

\* a step changes the locals of one invocation and of no other
OneInvocationSteps ==
  \A i \in Invocations : Locals(i)' # Locals(i) => Locals(Other(i))' = Locals(Other(i))

(***************************************************************************)
(* C17.  With invocations in flight at once and suspended at the call of   *)
(* the text service in any interleaving, the result of each depends on its *)
(* own input and its own reply alone, and no step of one invocation        *)
(* changes anything of another.                                            *)
(***************************************************************************)
C17_InvocationsAreIndependent == []ResultIsOwn /\ [][OneInvocationSteps]_vars

\* two calls of different flows, in different languages, have both ended, one
\* with its cleaned record and one with a validation fallback
C17_Witness ==
  /\ Ended("first") /\ Ended("second")
  /\ flow["first"] = "analyzeEnergyImage"
  /\ flow["second"] = "analyzeUserProfile"
  /\ outcome["first"] = "success"
  /\ outcome["second"] = "validationFallback"
  /\ input["first"].language # input["second"].language

(***************************************************************************)
(* C18.  A flow invoked twice with the same input, the text service giving *)
(* the same reply both times, ends both times in the same class and with   *)
(* the same record: the first call leaves nothing behind that changes the  *)
(* second, and the second changes nothing of what the first returned.      *)
(***************************************************************************)
C18_SameCallSameResult ==
  /\ (BothEnded /\ input["first"] = input["second"]) =>
       /\ outcome["first"] = outcome["second"]
       /\ result["first"] = result["second"]
       /\ parsedJson["first"] = parsedJson["second"]
  /\ Ended("second") =>
       [outcome |-> outcome["second"], result |-> result["second"]] =
         IF promise["second"] = "fulfilled"
           THEN Alone(flow["second"], input["second"], responseContent["first"])
           ELSE AloneFailed(flow["second"], input["second"])

\* the same valid reply has been cleaned and returned twice
C18_Witness ==
  /\ BothEnded
  /\ flow["first"] = "designSuggestions"
  /\ input["first"] = input["second"]
  /\ outcome["first"] = "success"
  /\ outcome["second"] = "success"
  /\ result["second"].value # Validated("second")

(***************************************************************************)
(* PollinationsService.generateText, seen from inside                      *)
(*                                                                         *)
(* One call of generateText: the request it issues, the response of the   *)
(* endpoint, the check of response.ok, the read of the body and the        *)
(* try/catch around all of it.  Temperatures are counted in tenths.        *)
(***************************************************************************)
\* the members of TextGenerationParams the method branches on
TextParams ==
  [system : {Undefined, JStr(<<>>), JStr(<<"sys">>)},
   temperature : {Undefined, JNum(0), JNum(7)},
   max_tokens : {Undefined, JNum(0), JNum(1000)}]

\* a destructuring without defaults
NotDefaulted(v, d) == v

\* a destructuring default replaces undefined and nothing else
Defaulted(v, d) == IF v = Undefined THEN d ELSE v

\* !system && !temperature && !max_tokens, after the defaults 0.7 and 1000
SimpleRequest(params) ==
  /\ ~Truthy(params.system)
  /\ ~Truthy(Defaulted(params.temperature, JNum(7)))
  /\ ~Truthy(Defaulted(params.max_tokens, JNum(1000)))

\* the statuses the endpoint answers with, and response.ok
Statuses == {200, 204, 404, 429, 500, 503}
ResponseOk(status) == status >= 200 /\ status <= 299

\* the bodies a response carries
ResponseBodies == {<<>>, <<"txt">>, <<"{", "A", "}">>}

\* new Error('Failed to generate text')
GenerateTextError == "Failed to generate text"

\* generateText(params) is called and nothing else is going on
InitClient ==
  /\ flow = [i \in Invocations |-> "none"]
  /\ input = [i \in Invocations |-> NoInput]
  /\ pc = [i \in Invocations |-> "Idle"]
  /\ lang = [i \in Invocations |-> ""]
  /\ request = [i \in Invocations |-> NoRequest]
  /\ calls = [i \in Invocations |-> 0]
  /\ responseContent = [i \in Invocations |-> <<>>]
  /\ parsedJson = [i \in Invocations |-> Undefined]
  /\ validationResult = [i \in Invocations |-> NoValidation]
  /\ promise = [i \in Invocations |-> "none"]
  /\ result = [i \in Invocations |-> NoResult]
  /\ outcome = [i \in Invocations |-> "pending"]
  /\ path = [i \in Invocations |-> <<>>]
  /\ \E params \in TextParams :
       http = [NoExchange EXCEPT !.stage = "called", !.params = params]
  /\ AppIdle

\* the variables of the flows, which a call of generateText does not touch
flowVars == <<flow, input, pc, lang, request, calls, responseContent, parsedJson,
              validationResult, promise, result, outcome, path>>

\* the catch block: whatever was thrown, the caller sees one fixed error
Caught == [http EXCEPT !.stage = "thrown", !.error = GenerateTextError]

\* fetch(...) is issued, by GET for a simple request and by POST otherwise
Fetch ==
  /\ http.stage = "called"
  /\ http' = [http EXCEPT !.stage = "fetching",
                          !.method = IF SimpleRequest(http.params) THEN "GET" ELSE "POST",
                          !.fetches = @ + 1]
  /\ UNCHANGED <<flowVars, appVars>>

\* the network fails: fetch rejects and the catch block rethrows
FetchRejects ==
  /\ http.stage = "fetching"
  /\ http' = [Caught EXCEPT !.network = "failed"]
  /\ UNCHANGED <<flowVars, appVars>>

\* the endpoint answers with some status and some body
FetchResolves ==
  /\ http.stage = "fetching"
  /\ \E status \in Statuses : \E body \in ResponseBodies :
       http' = [http EXCEPT !.stage = "responded", !.network = "ok",
                            !.status = status, !.body = body]
  /\ UNCHANGED <<flowVars, appVars>>

\* the check of response.ok answers yes whatever the status
CheckOkAnyStatus ==
  /\ http.stage = "responded"
  /\ http' = [http EXCEPT !.stage = "reading"]
  /\ UNCHANGED <<flowVars, appVars>>

\* if (!response.ok) throw new Error(`HTTP error! status: ...`), caught below
CheckOk ==
  /\ http.stage = "responded"
  /\ http' = IF ResponseOk(http.status) THEN [http EXCEPT !.stage = "reading"] ELSE Caught
  /\ UNCHANGED <<flowVars, appVars>>

\* return await response.text()
TextResolves ==
  /\ http.stage = "reading"
  /\ http' = [http EXCEPT !.stage = "returned", !.text = http.body]
  /\ UNCHANGED <<flowVars, appVars>>

\* the connection breaks while the body is read: response.text() rejects
TextRejects ==
  /\ http.stage = "reading"
  /\ http' = [Caught EXCEPT !.network = "failed"]
  /\ UNCHANGED <<flowVars, appVars>>

NextClient ==
  \/ Fetch
  \/ FetchRejects
  \/ FetchResolves
  \/ CheckOk
  \/ TextResolves
  \/ TextRejects

\* the check of response.ok is synchronous code after the await: it does run
SpecClient == InitClient /\ [][NextClient]_vars /\ WF_vars(CheckOk)

(***************************************************************************)
(* C19                                                                     *)
(***************************************************************************)
\* the endpoint answered with a status that is not a success
Refused == http.network = "ok" /\ ~ResponseOk(http.status)

\* the call has ended by throwing the error of the catch block
Threw == http.stage = "thrown" /\ http.error = GenerateTextError /\ http.text = <<>>

\* the call has ended by returning a string
ReturnedText == http.stage = "returned"

\* C19: generateText returns only the body text of a response with a success
\* status, and a network failure or a non-success status ends in the thrown
\* error: a string is never returned after either of them.
C19_ReturnsBodyOrThrows ==
  /\ [](ReturnedText =>
          /\ http.network = "ok"
          /\ ResponseOk(http.status)
          /\ http.text = http.body
          /\ http.error = "")
  /\ [](http.network = "failed" => Threw)
  /\ [](Refused => ~ReturnedText)
  /\ (Refused ~> Threw)
  /\ [][(ReturnedText \/ http.stage = "thrown") => UNCHANGED http]_vars

\* the endpoint answered 500 with an error page and the call threw
C19_Witness ==
  /\ Threw
  /\ Refused
  /\ http.status = 500
  /\ http.body # <<>>

(***************************************************************************)
(* C20                                                                     *)
(***************************************************************************)
\* C20: a failed generation call is followed by at least one further attempt,
\* a retry or a switch to a backup provider, before an error reaches the
\* caller: no call throws after a single request.
C20_FailedCallIsRetried == http.stage = "thrown" => http.fetches >= 2

(***************************************************************************)
(* The components that call a flow                                         *)
(*                                                                         *)
(* PersonalizedQuestionnaire.onSubmit (with the page that owns its state), *)
(* EnergyImageAnalyzer.handleSubmit and handleDesignSubmit of the creative *)
(* workshop.  A handler runs from the click to its await in one step: the  *)
(* state it sets there is rendered before the next event is handled.  The  *)
(* flow it awaits ends with whatever the flow gives for some reply of the  *)
(* text service, or with the error the flow throws.                        *)
(***************************************************************************)
Callers == {"onSubmit", "handleSubmit", "handleDesignSubmit"}

\* the flow each handler awaits
FlowCalled(who) ==
  CASE who = "onSubmit" -> "analyzeUserProfile"
    [] who = "handleSubmit" -> "analyzeEnergyImage"
    [] who = "handleDesignSubmit" -> "designSuggestions"

\* useState(null)
Null == [k |-> "null"]

\* the argument the handler builds: language comes from useLanguage()
CallerInput(who, l) ==
  [language |-> l,
   analysisType |-> IF who = "handleSubmit" THEN <<"energyField">> ELSE <<>>,
   name |-> IF who = "onSubmit" THEN <<"Ann">> ELSE <<>>]

\* what the awaited flow can end with
FlowOutcomes(who, l) ==
  {Alone(FlowCalled(who), CallerInput(who, l), raw).result : raw \in ConcurrentReplies}
    \cup {AloneFailed(FlowCalled(who), CallerInput(who, l)).result}

\* the component as mounted: the analyzer has no file yet
Mounted(who, l) ==
  [stage |-> "mounted", who |-> who, language |-> l,
   file |-> IF who = "handleSubmit" THEN "none" ELSE "n/a",
   loading |-> FALSE, result |-> Null, error |-> <<>>,
   toast |-> "none", description |-> <<>>,
   call |-> "none", flight |-> NoResult, last |-> NoResult]

\* the three views of the questionnaire tab
FormView == caller.result = Null /\ ~caller.loading
SpinnerView == caller.loading
ProfileView == caller.result # Null /\ ~caller.loading

\* the control that starts the handler is rendered and enabled
CanSubmitAlways == caller.call = "none"

CanSubmit ==
  /\ caller.call = "none"
  /\ CASE caller.who = "onSubmit" -> FormView
       [] caller.who = "handleSubmit" -> caller.file # "none" /\ ~caller.loading
       [] caller.who = "handleDesignSubmit" -> ~caller.loading

\* handleFileChange: a file is chosen and the FileReader starts
FileChosen ==
  /\ caller.who = "handleSubmit"
  /\ caller' = [caller EXCEPT !.file = "reading", !.error = <<>>, !.result = Null]
  /\ UNCHANGED <<flowVars, http, calc, preview, wizard, auth, i18n>>

\* reader.onloadend: setPreview
PreviewLoaded ==
  /\ caller.who = "handleSubmit"
  /\ caller.file = "reading"
  /\ caller' = [caller EXCEPT !.file = "ready"]
  /\ UNCHANGED <<flowVars, http, calc, preview, wizard, auth, i18n>>

\* handleSubmit without a preview: setError and return
SubmitWithoutPreview ==
  /\ caller.who = "handleSubmit"
  /\ CanSubmit
  /\ caller.file = "reading"
  /\ caller' = [caller EXCEPT !.error = <<"inspirationAnalyzer.errorNoFile">>]
  /\ UNCHANGED <<flowVars, http, calc, preview, wizard, auth, i18n>>

\* the handler up to its await: the flag is raised, the old result is dropped;
\* flight is what the flow just called is going to end with
Submit ==
  /\ CanSubmit
  /\ caller.who = "handleSubmit" => caller.file = "ready"
  /\ \E o \in FlowOutcomes(caller.who, caller.language) :
       caller' = [caller EXCEPT !.loading = TRUE, !.result = Null,
                                !.error = IF caller.who = "handleSubmit" THEN <<>> ELSE @,
                                !.call = "awaiting", !.flight = o]
  /\ UNCHANGED <<flowVars, http, calc, preview, wizard, auth, i18n>>

\* the continuation when the flow returns: set the result, toast, finally
FlowReturns ==
  /\ caller.call = "awaiting"
  /\ caller.flight.kind = "returned"
  /\ caller' = [caller EXCEPT !.result = caller.flight.value, !.toast = "default",
                              !.description = <<>>,
                              !.loading = FALSE, !.call = "none",
                              !.flight = NoResult, !.last = caller.flight]
  /\ UNCHANGED <<flowVars, http, calc, preview, wizard, auth, i18n>>

\* the continuation when the flow throws, were there no finally block
FlowThrowsNoFinally ==
  /\ caller.call = "awaiting"
  /\ caller.flight.kind = "thrown"
  /\ caller' = [caller EXCEPT !.toast = "destructive",
                              !.description = caller.flight.value.message,
                              !.call = "none",
                              !.flight = NoResult, !.last = caller.flight]
  /\ UNCHANGED <<flowVars, http, calc, preview, wizard, auth, i18n>>

\* the continuation when the flow throws: catch (destructive toast with the
\* message of the error), then finally
FlowThrows ==
  /\ caller.call = "awaiting"
  /\ caller.flight.kind = "thrown"
  /\ caller' = [caller EXCEPT !.result = IF caller.who = "onSubmit" THEN Null ELSE @,
                              !.error = IF caller.who = "handleSubmit"
                                          THEN caller.flight.value.message ELSE @,
                              !.toast = "destructive",
                              !.description = caller.flight.value.message,
                              !.loading = FALSE, !.call = "none",
                              !.flight = NoResult, !.last = caller.flight]
  /\ UNCHANGED <<flowVars, http, calc, preview, wizard, auth, i18n>>

\* the flows are idle, no request is looked into
FlowsIdle ==
  /\ flow = [i \in Invocations |-> "none"]
  /\ input = [i \in Invocations |-> NoInput]
  /\ pc = [i \in Invocations |-> "Idle"]
  /\ lang = [i \in Invocations |-> ""]
  /\ request = [i \in Invocations |-> NoRequest]
  /\ calls = [i \in Invocations |-> 0]
  /\ responseContent = [i \in Invocations |-> <<>>]
  /\ parsedJson = [i \in Invocations |-> Undefined]
  /\ validationResult = [i \in Invocations |-> NoValidation]
  /\ promise = [i \in Invocations |-> "none"]
  /\ result = [i \in Invocations |-> NoResult]
  /\ outcome = [i \in Invocations |-> "pending"]
  /\ path = [i \in Invocations |-> <<>>]
  /\ http = NoExchange

InitCallers ==
  /\ FlowsIdle
  /\ \E who \in Callers : \E l \in {"en", "zh"} : caller = Mounted(who, l)
  /\ calc = Idle
  /\ preview = Idle
  /\ wizard = Idle
  /\ auth = Idle
  /\ i18n = Idle

NextCallers ==
  \/ FileChosen
  \/ PreviewLoaded
  \/ SubmitWithoutPreview
  \/ Submit
  \/ FlowReturns
  \/ FlowThrows

\* the awaited flow ends, one way or the other
SpecCallers == InitCallers /\ [][NextCallers]_vars /\ WF_vars(FlowReturns \/ FlowThrows)

(***************************************************************************)
(* C21                                                                     *)
(***************************************************************************)
\* this step ends the call in flight
CallEnds == caller.call = "awaiting" /\ caller'.call = "none"

\* C21: a started call ends with the loading flag reset on both outcomes; a
\* returned record becomes the result the component shows, a thrown error
\* leaves no result stored and is shown in a destructive toast; the flag is
\* up exactly while the call is in flight.
C21_CallerHandlesBothOutcomes ==
  /\ [](caller.loading <=> caller.call = "awaiting")
  /\ (caller.call = "awaiting" ~> (caller.call = "none" /\ ~caller.loading))
  /\ [][CallEnds =>
          /\ ~caller'.loading
          /\ caller'.last.kind = "returned" =>
               /\ caller'.result = caller'.last.value
               /\ caller'.result # Null
               /\ caller'.toast = "default"
          /\ caller'.last.kind = "thrown" =>
               /\ caller'.result = Null
               /\ caller'.toast = "destructive"
               /\ caller'.description = caller'.last.value.message]_vars

\* a call of the design workshop has thrown and has been handled
C21_Witness ==
  /\ caller.who = "handleDesignSubmit"
  /\ caller.last.kind = "thrown"
  /\ caller.call = "none"
  /\ ~caller.loading
  /\ caller.result = Null
  /\ caller.toast = "destructive"

(***************************************************************************)
(* C26                                                                     *)
(***************************************************************************)
\* the number of views of the questionnaire tab that are rendered
ViewsRendered ==
  (IF FormView THEN 1 ELSE 0) + (IF SpinnerView THEN 1 ELSE 0) + (IF ProfileView THEN 1 ELSE 0)

\* C26: the questionnaire tab renders exactly one of the form, the spinner
\* and the profile, and once the profile is shown (a profile stored, the
\* analysis ended) the form is never rendered again.
C26_OneViewAndNoWayBack ==
  /\ [](caller.who = "onSubmit" => ViewsRendered = 1)
  /\ []((caller.who = "onSubmit" /\ ProfileView) => [](~FormView /\ ~SpinnerView))

\* analyzeUserProfile has returned and the profile is shown
C26_Witness ==
  /\ caller.who = "onSubmit"
  /\ ProfileView
  /\ caller.last.kind = "returned"
  /\ caller.toast = "default"

(***************************************************************************)
(* mbti-utils: calculateMbtiType                                           *)
(*                                                                         *)
(* The answers of a dimension are an array of 'A', 'B' and undefined, or   *)
(* are missing altogether.                                                 *)
(***************************************************************************)
\* the four dimensions with their two letters
MbtiDimensions == {"ei", "sn", "tf", "jp"}
CharA(d) == CASE d = "ei" -> "E" [] d = "sn" -> "S" [] d = "tf" -> "T" [] d = "jp" -> "J"
CharB(d) == CASE d = "ei" -> "I" [] d = "sn" -> "N" [] d = "tf" -> "F" [] d = "jp" -> "P"

\* the number of questions of a dimension
MbtiQuestions == 7

\* k answers 'A' followed by answers 'B'
FirstA(k) == [i \in 1..MbtiQuestions |-> IF i <= k THEN "A" ELSE "B"]

\* the arrays a dimension is answered with: from no 'A' to seven, in order and
\* mixed, with an unanswered question, one question short, or not at all
DimensionAnswers ==
  {JArr(FirstA(k)) : k \in {0, 3, 4, 7}}
    \cup {JArr(<<"B", "A", "B", "A", "B", "A", "A">>),
          JArr(<<"undefined", "A", "A", "A", "A", "A", "A">>),
          JArr(<<"A", "A", "A", "A", "B", "B", "undefined">>),
          JArr(<<"A", "A", "A", "A", "A", "A">>),
          Undefined}

\* the number of elements of seq that are x
RECURSIVE CountOf(_, _)
CountOf(seq, x) ==
  IF seq = <<>> THEN 0
  ELSE (IF Head(seq) = x THEN 1 ELSE 0) + CountOf(Tail(seq), x)

\* !dimAnswers || dimAnswers.length !== 7 || dimAnswers.some(ans => ans === undefined)
areMbtiAnswersComplete(answers) ==
  \A d \in MbtiDimensions :
    /\ Truthy(answers[d])
    /\ Len(answers[d].a) = MbtiQuestions
    /\ CountOf(answers[d].a, "undefined") = 0

\* the tendency goes to charA only with five answers 'A' or more
calculateDimensionStrict(dimAnswers, charA, charB) ==
  LET scoreA == CountOf(dimAnswers.a, "A")
      scoreB == CountOf(dimAnswers.a, "B")
      tendency == IF scoreA > 4 THEN charA ELSE charB
  IN  [scoreA |-> scoreA, scoreB |-> scoreB, tendency |-> tendency, typeChar |-> tendency]

\* scoreA, scoreB and const tendency = scoreA >= 4 ? charA : charB
calculateDimension(dimAnswers, charA, charB) ==
  LET scoreA == CountOf(dimAnswers.a, "A")
      scoreB == CountOf(dimAnswers.a, "B")
      tendency == IF scoreA >= 4 THEN charA ELSE charB
  IN  [scoreA |-> scoreA, scoreB |-> scoreB, tendency |-> tendency, typeChar |-> tendency]

\* null for incomplete answers, else the four dimensions and the type
calculateMbtiType(answers) ==
  IF ~areMbtiAnswersComplete(answers) THEN Null
  ELSE LET r == [d \in MbtiDimensions |-> calculateDimension(answers[d], CharA(d), CharB(d))]
       IN  [k |-> "MbtiResult", ei |-> r["ei"], sn |-> r["sn"], tf |-> r["tf"], jp |-> r["jp"],
            type |-> <<r["ei"].typeChar, r["sn"].typeChar, r["tf"].typeChar, r["jp"].typeChar>>,
            isComplete |-> TRUE]

\* a utility is called with args
Called(fn, args) == [stage |-> "called", fn |-> fn, args |-> args, out |-> Null]

InitMbti ==
  /\ FlowsIdle
  /\ \E answers \in [MbtiDimensions -> DimensionAnswers] :
       calc = Called("calculateMbtiType", answers)
  /\ caller = Idle
  /\ preview = Idle
  /\ wizard = Idle
  /\ auth = Idle
  /\ i18n = Idle

\* the call returns
ReturnMbti ==
  /\ calc.stage = "called"
  /\ calc.fn = "calculateMbtiType"
  /\ calc' = [calc EXCEPT !.stage = "returned", !.out = calculateMbtiType(calc.args)]
  /\ UNCHANGED <<flowVars, http, caller, preview, wizard, auth, i18n>>

SpecMbti == InitMbti /\ [][ReturnMbti]_vars

(***************************************************************************)
(* C22                                                                     *)
(***************************************************************************)
\* the answers of dimension d that are x, counted over the seven questions
Answered(d, x) ==
  IF calc.args[d] = Undefined THEN 0
  ELSE Cardinality({i \in 1..MbtiQuestions :
                      i <= Len(calc.args[d].a) /\ calc.args[d].a[i] = x})

\* one of the 28 answers is missing
AnswerMissing == \E d \in MbtiDimensions : Answered(d, "A") + Answered(d, "B") < MbtiQuestions

\* C22: calculateMbtiType returns null when an answer is missing; otherwise
\* the type has, per dimension, the first letter exactly when at least 4 of
\* the 7 answers are 'A' and the second letter otherwise, and the two scores
\* of every dimension are the counts of 'A' and 'B' and sum to 7.
C22_MbtiTypeIsMajority ==
  (calc.stage = "returned" /\ calc.fn = "calculateMbtiType") =>
    IF AnswerMissing THEN calc.out = Null
    ELSE /\ calc.out # Null
         /\ Len(calc.out.type) = 4
         /\ calc.out.type = <<calc.out.ei.typeChar, calc.out.sn.typeChar,
                              calc.out.tf.typeChar, calc.out.jp.typeChar>>
         /\ \A d \in MbtiDimensions :
              /\ calc.out[d].typeChar = (IF Answered(d, "A") >= 4 THEN CharA(d) ELSE CharB(d))
              /\ calc.out[d].tendency = calc.out[d].typeChar
              /\ calc.out[d].scoreA = Answered(d, "A")
              /\ calc.out[d].scoreB = Answered(d, "B")
              /\ calc.out[d].scoreA + calc.out[d].scoreB = 7

\* exactly four answers 'A' decide the first letter, three the second
C22_Witness ==
  /\ calc.stage = "returned"
  /\ calc.fn = "calculateMbtiType"
  /\ calc.out # Null
  /\ calc.out.type = <<"E", "N", "T", "P">>
  /\ calc.out.ei.scoreA = 4
  /\ calc.out.sn.scoreA = 3

(***************************************************************************)
(* mbti-utils: calculateChakraScores                                       *)
(*                                                                         *)
(* Answers are numbers or undefined; a score is kept in hundredths, which  *)
(* is what toFixed(2) leaves of it.                                        *)
(***************************************************************************)
Chakras == {"root", "sacral", "solarPlexus", "heart", "throat", "thirdEye", "crown"}

\* the number of questions of a chakra
ChakraQuestions == 4

\* negativeChakraQuestionMap
negativeChakraQuestionMap ==
  [root |-> <<TRUE, TRUE, TRUE, FALSE>>,
   sacral |-> <<FALSE, FALSE, TRUE, FALSE>>,
   solarPlexus |-> <<TRUE, TRUE, FALSE, FALSE>>,
   heart |-> <<TRUE, FALSE, TRUE, FALSE>>,
   throat |-> <<TRUE, FALSE, TRUE, TRUE>>,
   thirdEye |-> <<FALSE, FALSE, TRUE, FALSE>>,
   crown |-> <<TRUE, FALSE, FALSE, FALSE>>]

\* an array of answers
Scores(seq) == JArr([i \in 1..Len(seq) |-> JNum(seq[i])])

\* the arrays a chakra is answered with: valid ones, an answer below 1 or
\* above 5, an unanswered question, a question short or too many, or undefined
ValidChakraAnswers ==
  {Scores(<<1, 1, 1, 1>>), Scores(<<5, 5, 5, 5>>), Scores(<<3, 3, 3, 3>>),
   Scores(<<1, 2, 3, 4>>), Scores(<<5, 1, 5, 1>>), Scores(<<2, 5, 4, 5>>)}
InvalidChakraAnswers ==
  {Scores(<<0, 3, 3, 3>>), Scores(<<3, 3, 3, 6>>), Scores(<<3, 3, 3>>),
   Scores(<<3, 3, 3, 3, 3>>), JArr(<<JNum(3), Undefined, JNum(3), JNum(3)>>), Undefined}

\* the questionnaires: one chakra answered in its own way or left out
ChakraQuestionnaires ==
  {[c \in Chakras |-> IF c = k THEN v ELSE base] :
     base \in ValidChakraAnswers \cup {Scores(<<3, 3, 3, 6>>)}, k \in Chakras,
     v \in ValidChakraAnswers \cup InvalidChakraAnswers}
  \cup {[c \in Chakras \ {k} |-> base] : base \in ValidChakraAnswers, k \in Chakras}

\* typeof ans !== 'number' || ans < 1 || ans > 5
InvalidScore(ans) == ans.k # "number" \/ ans.n < 1 \/ ans.n > 5

\* 7 keys, 4 questions per chakra, every answer a number from 1 to 5
areChakraAnswersComplete(rawAnswers) ==
  /\ Cardinality(DOMAIN rawAnswers) = 7
  /\ \A chakraKey \in DOMAIN rawAnswers :
       /\ Truthy(rawAnswers[chakraKey])
       /\ Len(rawAnswers[chakraKey].a) = ChakraQuestions
       /\ \A i \in 1..Len(rawAnswers[chakraKey].a) : ~InvalidScore(rawAnswers[chakraKey].a[i])

\* questionScore, without the reversal of the negative questions
QuestionScoreAsGiven(chakraKey, questions, index) == questions[index].n

\* questionScore = negativeMap[index] ? 6 - answer : answer
QuestionScore(chakraKey, questions, index) ==
  IF negativeChakraQuestionMap[chakraKey][index]
    THEN 6 - questions[index].n
    ELSE questions[index].n

\* chakraTotalScore after questions.forEach
RECURSIVE ChakraTotalScore(_, _, _)
ChakraTotalScore(chakraKey, questions, upTo) ==
  IF upTo = 0 THEN 0
  ELSE ChakraTotalScore(chakraKey, questions, upTo - 1)
         + QuestionScore(chakraKey, questions, upTo)

\* parseFloat((num / den).toFixed(2)), in hundredths
ToFixed2(num, den) == (2 * 100 * num + den) \div (2 * den)

\* null for incomplete answers, else the average per chakra
calculateChakraScores(rawAnswers) ==
  IF ~areChakraAnswersComplete(rawAnswers) THEN Null
  ELSE [k |-> "ChakraAssessmentScores",
        focus |-> [chakraKey \in DOMAIN rawAnswers |->
                     ToFixed2(ChakraTotalScore(chakraKey, rawAnswers[chakraKey].a,
                                               Len(rawAnswers[chakraKey].a)), 4)]]

InitChakra ==
  /\ FlowsIdle
  /\ \E answers \in ChakraQuestionnaires : calc = Called("calculateChakraScores", answers)
  /\ caller = Idle
  /\ preview = Idle
  /\ wizard = Idle
  /\ auth = Idle
  /\ i18n = Idle

\* the call returns
ReturnChakra ==
  /\ calc.stage = "called"
  /\ calc.fn = "calculateChakraScores"
  /\ calc' = [calc EXCEPT !.stage = "returned", !.out = calculateChakraScores(calc.args)]
  /\ UNCHANGED <<flowVars, http, caller, preview, wizard, auth, i18n>>

SpecChakra == InitChakra /\ [][ReturnChakra]_vars

(***************************************************************************)
(* C23                                                                     *)
(***************************************************************************)
\* chakra c has 4 answers, each a number from 1 to 5
FourValidAnswers(c) ==
  /\ c \in DOMAIN calc.args
  /\ calc.args[c] # Undefined
  /\ Len(calc.args[c].a) = 4
  /\ \A i \in 1..4 : calc.args[c].a[i].k = "number" /\ calc.args[c].a[i].n \in 1..5

\* the answer to question i of chakra c, reversed if the question is negative
Reversed(c, i) ==
  LET a == calc.args[c].a[i].n
  IN  IF negativeChakraQuestionMap[c][i] THEN 6 - a ELSE a

MaxGenerations == 3

Prompts == {"p1", "p2", "p3"}

\* result.imageUrl of generateImage({prompt, language})
ImageFor(prompt) == <<"image for", prompt>>

InitPreview ==
  /\ FlowsIdle
  /\ preview = [stage |-> "mounted", promptToGenerate |-> "", isGenerating |-> FALSE,
                generatedImageUrl |-> <<>>, error |-> <<>>,
                started |-> 0, pending |-> {}, latest |-> "none"]
  /\ caller = Idle
  /\ calc = Idle
  /\ wizard = Idle
  /\ auth = Idle
  /\ i18n = Idle

\* the parent passes another prompt; useEffect runs generate() up to its await
PromptChanges ==
  /\ preview.started < MaxGenerations
  /\ \E p \in Prompts :
       /\ p # preview.promptToGenerate
       /\ preview' = [preview EXCEPT !.promptToGenerate = p,
                                     !.isGenerating = TRUE,
                                     !.generatedImageUrl = <<>>,
                                     !.error = <<>>,
                                     !.started = @ + 1,
                                     !.pending = @ \cup {[id |-> preview.started + 1, prompt |-> p]},
                                     !.latest = "pending"]
  /\ UNCHANGED <<flowVars, http, caller, calc, wizard, auth, i18n>>

\* generateImage resolves for one of the generations: setGeneratedImageUrl, finally
GenerationResolves ==
  /\ \E g \in preview.pending :
       preview' = [preview EXCEPT !.generatedImageUrl = ImageFor(g.prompt),
                                  !.isGenerating = FALSE,
                                  !.pending = @ \ {g},
                                  !.latest = IF g.id = preview.started THEN "resolved" ELSE @]
  /\ UNCHANGED <<flowVars, http, caller, calc, wizard, auth, i18n>>

\* generateImage rejects for one of the generations: setError, toast, finally
GenerationRejects ==
  /\ \E g \in preview.pending :
       preview' = [preview EXCEPT !.error = <<"Failed to generate image">>,
                                  !.isGenerating = FALSE,
                                  !.pending = @ \ {g},
                                  !.latest = IF g.id = preview.started THEN "rejected" ELSE @]
  /\ UNCHANGED <<flowVars, http, caller, calc, wizard, auth, i18n>>

NextPreview ==
  \/ PromptChanges
  \/ GenerationResolves
  \/ GenerationRejects

SpecPreview == InitPreview /\ [][NextPreview]_vars

(***************************************************************************)
(* C24                                                                     *)
(***************************************************************************)
\* C24: once every generation has ended, the component shows the image
\* generated for the latest prompt (if that generation succeeded), and the
\* generating flag is never false while the generation for the latest
\* prompt is in flight.
C24_LatestPromptWins ==
  /\ (preview.pending = {} /\ preview.latest = "resolved") =>
       preview.generatedImageUrl = ImageFor(preview.promptToGenerate)
  /\ preview.latest = "pending" => preview.isGenerating

(***************************************************************************)
(* PersonalizedQuestionnaire: the steps                                    *)
(*                                                                         *)
(* handleNext awaits only the validation of the form, which settles in the *)
(* microtasks of the click that called it: no other handler runs in       *)
(* between, and handleNext is one step here.  The handlers are called at   *)
(* any step, whether or not the button that calls them is rendered.        *)
(***************************************************************************)
\* stepsConfig
stepsConfig ==
  <<[id |-> "basicInfo", skippable |-> FALSE],
    [id |-> "chakraAnswers", skippable |-> TRUE],
    [id |-> "mbtiAnswers", skippable |-> TRUE],
    [id |-> "lifestylePreferences", skippable |-> FALSE],
    [id |-> "currentStatus", skippable |-> FALSE]>>

StepIds == {stepsConfig[i].id : i \in 1..Len(stepsConfig)}

\* stepsConfig[currentStep], the array being indexed from 0
StepData(currentStep) == stepsConfig[currentStep + 1]

InitWizard ==
  /\ FlowsIdle
  /\ wizard = [stage |-> "mounted", currentStep |-> 0, direction |-> 1,
               valid |-> [s \in StepIds |-> s = "chakraAnswers"],
               toast |-> "none", last |-> "none"]
  /\ caller = Idle
  /\ calc = Idle
  /\ preview = Idle
  /\ auth = Idle
  /\ i18n = Idle

\* the user fills in or empties the fields of a step: for a skippable step
\* valid is areChakraAnswersComplete / areMbtiAnswersComplete, for the others
\* what trigger(fields) resolves with
Edit ==
  /\ \E s \in StepIds :
       wizard' = [wizard EXCEPT !.valid[s] = ~@, !.last = "edit"]
  /\ UNCHANGED <<flowVars, http, caller, calc, preview, auth, i18n>>

\* handleNext without the test currentStep < stepsConfig.length - 1
handleNextUnbounded ==
  /\ LET currentStepData == StepData(wizard.currentStep)
         isStepValid == currentStepData.skippable \/ wizard.valid[currentStepData.id]
     IN  wizard' = [wizard EXCEPT
                      !.direction = 1,
                      !.toast = IF currentStepData.skippable
                                  THEN (IF wizard.valid[currentStepData.id] THEN @ ELSE "skipped")
                                  ELSE (IF isStepValid THEN @ ELSE "incomplete"),
                      !.currentStep = IF isStepValid /\ @ < Len(stepsConfig) THEN @ + 1 ELSE @,
                      !.last = "next"]
  /\ UNCHANGED <<flowVars, http, caller, calc, preview, auth, i18n>>

\* handleNext
handleNext ==
  /\ LET currentStepData == StepData(wizard.currentStep)
         isStepValid == currentStepData.skippable \/ wizard.valid[currentStepData.id]
     IN  wizard' = [wizard EXCEPT
                      !.direction = 1,
                      !.toast = IF currentStepData.skippable
                                  THEN (IF wizard.valid[currentStepData.id] THEN @ ELSE "skipped")
                                  ELSE (IF isStepValid THEN @ ELSE "incomplete"),
                      !.currentStep = IF isStepValid /\ @ < Len(stepsConfig) - 1 THEN @ + 1 ELSE @,
                      !.last = "next"]
  /\ UNCHANGED <<flowVars, http, caller, calc, preview, auth, i18n>>

\* handleBack
handleBack ==
  /\ wizard' = [wizard EXCEPT !.direction = -1,
                              !.currentStep = IF @ > 0 THEN @ - 1 ELSE @,
                              !.last = "back"]
  /\ UNCHANGED <<flowVars, http, caller, calc, preview, auth, i18n>>

NextWizard ==
  \/ Edit
  \/ handleNext
  \/ handleBack

SpecWizard == InitWizard /\ [][NextWizard]_vars

(***************************************************************************)
(* C25                                                                     *)
(***************************************************************************)
\* this step is a call of the handler named
Handled(name) == wizard'.last = name /\ wizard' # wizard

\* the steps that can be skipped: chakra and MBTI
Skippable(step) == step \in {1, 2}

\* C25: the step index stays within 0..4; Next on a skippable step always
\* advances, Next on another step advances only when the fields of that step
\* validate (and never past the last step), Back goes one step back and never
\* below step 0.
C25_StepStaysInRange ==
  /\ [](wizard.currentStep \in 0..4)
  /\ [][Handled("next") =>
          IF Skippable(wizard.currentStep)
            THEN wizard'.currentStep = wizard.currentStep + 1
            ELSE /\ wizard'.currentStep \in {wizard.currentStep, wizard.currentStep + 1}
                 /\ wizard'.currentStep = wizard.currentStep + 1 =>
                      wizard.valid[stepsConfig[wizard.currentStep + 1].id]
                 /\ (wizard.valid[stepsConfig[wizard.currentStep + 1].id]
                       /\ wizard.currentStep < 4) =>
                      wizard'.currentStep = wizard.currentStep + 1]_vars
  /\ [][Handled("back") =>
          wizard'.currentStep = (IF wizard.currentStep = 0 THEN 0 ELSE wizard.currentStep - 1)]_vars

\* the last step has been reached by Next after a section was skipped
C25_Witness ==
  /\ wizard.currentStep = 4
  /\ wizard.last = "next"
  /\ wizard.toast = "skipped"
  /\ ~wizard.valid["mbtiAnswers"]

(***************************************************************************)
(* AuthProvider                                                            *)
(*                                                                         *)
(* localStorage holds, under 'user', nothing, what login wrote in this or  *)
(* an earlier visit, or text that does not parse.                          *)
(***************************************************************************)
Emails == {"a@x", "b@x", "c@x"}

\* JSON.stringify({ email })
StringifyUser(user) == <<"{email:", user.email, "}">>

\* JSON.parse(storedUser): the user, or a SyntaxError
ParseUser(text) ==
  IF Len(text) = 3 /\ text[1] = "{email:" /\ text[3] = "}"
    THEN [ok |-> TRUE, value |-> [k |-> "user", email |-> text[2]]]
    ELSE [ok |-> FALSE, value |-> Null]

\* the entries found at mount; <<>> is no entry
StoredAtMount == {<<>>, <<"garbage">>} \cup {StringifyUser([email |-> e]) : e \in Emails}

InitAuth ==
  /\ FlowsIdle
  /\ \E stored \in StoredAtMount :
       auth = [stage |-> "mounted", user |-> Null, isAuthLoading |-> TRUE,
               stored |-> stored, route |-> "here", toast |-> <<>>, log |-> <<>>,
               last |-> "none"]
  /\ caller = Idle
  /\ calc = Idle
  /\ preview = Idle
  /\ wizard = Idle
  /\ i18n = Idle

\* the effect run once after mount
MountEffect ==
  /\ auth.isAuthLoading
  /\ auth' = [auth EXCEPT
                !.user = IF auth.stored # <<>> /\ ParseUser(auth.stored).ok
                           THEN ParseUser(auth.stored).value ELSE @,
                !.stored = IF auth.stored # <<>> /\ ~ParseUser(auth.stored).ok THEN <<>> ELSE @,
                !.isAuthLoading = FALSE,
                !.last = "effect"]
  /\ UNCHANGED <<flowVars, http, caller, calc, preview, wizard, i18n>>

\* login(email)
login ==
  /\ \E email \in Emails :
       auth' = [auth EXCEPT !.user = [k |-> "user", email |-> email],
                            !.stored = StringifyUser([email |-> email]),
                            !.toast = <<"toasts.loginSuccessTitle", email>>,
                            !.route = "/", !.last = "login"]
  /\ UNCHANGED <<flowVars, http, caller, calc, preview, wizard, i18n>>

\* register(email): a line on the console, a toast and a redirect
register ==
  /\ \E email \in Emails :
       auth' = [auth EXCEPT !.log = <<"Simulating registration for", email>>,
                            !.toast = <<"toasts.registerSuccessTitle">>,
                            !.route = "/login", !.last = "register"]
  /\ UNCHANGED <<flowVars, http, caller, calc, preview, wizard, i18n>>

\* logout that forgets localStorage.removeItem('user')
logoutKeepingEntry ==
  /\ auth' = [auth EXCEPT !.user = Null, !.toast = <<"toasts.logoutSuccessTitle">>,
                          !.route = "/", !.last = "logout"]
  /\ UNCHANGED <<flowVars, http, caller, calc, preview, wizard, i18n>>

\* logout()
logout ==
  /\ auth' = [auth EXCEPT !.user = Null, !.stored = <<>>,
                          !.toast = <<"toasts.logoutSuccessTitle">>,
                          !.route = "/", !.last = "logout"]
  /\ UNCHANGED <<flowVars, http, caller, calc, preview, wizard, i18n>>

\* const isAuthenticated = !!user
isAuthenticated == auth.user # Null

NextAuth ==
  \/ MountEffect
  \/ login
  \/ register
  \/ logout

SpecAuth == InitAuth /\ [][NextAuth]_vars

(***************************************************************************)
(* C27                                                                     *)
(***************************************************************************)
\* the 'user' entry exists exactly when a user is logged in
EntryIffUser == (auth.stored # <<>>) <=> (auth.user # Null)

\* register leaves the user and the entry alone
RegisterChangesNothing ==
  [][auth'.last = "register" => (auth'.user = auth.user /\ auth'.stored = auth.stored)]_vars

UiLanguages == {"en", "zh"}
Themes == {"morning", "noon", "dusk", "night"}

\* what localStorage holds at mount under 'language' and 'theme'; "none" is no entry
StoredLanguages == {"none", "en", "zh", "fr"}
StoredThemes == {"none", "noon", "dusk", "sepia"}

InitLanguage ==
  /\ FlowsIdle
  /\ \E sl \in StoredLanguages : \E st \in StoredThemes :
       i18n = [stage |-> "mounted", language |-> "en", theme |-> "night",
               isClientHydrated |-> FALSE, storedLanguage |-> sl, storedTheme |-> st,
               last |-> "none"]
  /\ caller = Idle
  /\ calc = Idle
  /\ preview = Idle
  /\ wizard = Idle
  /\ auth = Idle

\* the effect run once after mount
HydrationEffect ==
  /\ ~i18n.isClientHydrated
  /\ i18n' = [i18n EXCEPT
                !.language = IF i18n.storedLanguage \in {"en", "zh"}
                               THEN i18n.storedLanguage ELSE "en",
                !.theme = IF i18n.storedTheme \in {"morning", "noon", "dusk", "night"}
                            THEN i18n.storedTheme ELSE "night",
                !.isClientHydrated = TRUE,
                !.last = "effect"]
  /\ UNCHANGED <<flowVars, http, caller, calc, preview, wizard, auth>>

\* setLanguage that writes nothing to localStorage
setLanguageUnpersisted ==
  /\ \E l \in UiLanguages :
       i18n' = [i18n EXCEPT !.language = l, !.last = "setLanguage"]
  /\ UNCHANGED <<flowVars, http, caller, calc, preview, wizard, auth>>

\* setLanguage(lang)
setLanguage ==
  /\ \E l \in UiLanguages :
       i18n' = [i18n EXCEPT !.language = l,
                            !.storedLanguage = IF i18n.isClientHydrated THEN l ELSE @,
                            !.last = "setLanguage"]
  /\ UNCHANGED <<flowVars, http, caller, calc, preview, wizard, auth>>

\* setTheme(themeValue)
setTheme ==
  /\ \E themeValue \in Themes :
       i18n' = [i18n EXCEPT !.theme = themeValue,
                            !.storedTheme = IF i18n.isClientHydrated THEN themeValue ELSE @,
                            !.last = "setTheme"]
  /\ UNCHANGED <<flowVars, http, caller, calc, preview, wizard, auth>>

NextLanguage ==
  \/ HydrationEffect
  \/ setLanguage
  \/ setTheme

SpecLanguage == InitLanguage /\ [][NextLanguage]_vars

(***************************************************************************)
(* C28                                                                     *)
(***************************************************************************)
\* this step is a call of setLanguage
SetLanguageCalled == i18n'.last = "setLanguage" /\ i18n' # i18n

\* C28: the language is always 'en' or 'zh', and at hydration it becomes the
\* stored language, or 'en' if the stored value is not one of the two; a call
\* of setLanguage on the hydrated client leaves the persisted language equal
\* to the current one, a call before hydration leaves the entry as it was.
C28_LanguageIsPersistedOnceHydrated ==
  /\ [](i18n.language \in {"en", "zh"})
  /\ [][(~i18n.isClientHydrated /\ i18n'.isClientHydrated) =>
          /\ i18n'.language = (IF i18n.storedLanguage = "zh" THEN "zh" ELSE "en")
          /\ i18n'.storedLanguage = i18n.storedLanguage]_vars
  /\ [][(SetLanguageCalled /\ i18n.isClientHydrated) =>
          i18n'.storedLanguage = i18n'.language]_vars
  /\ [][(SetLanguageCalled /\ ~i18n.isClientHydrated) =>
          i18n'.storedLanguage = i18n.storedLanguage]_vars
  /\ [][i18n.isClientHydrated => i18n'.isClientHydrated]_vars

\* 'zh' was chosen on the hydrated client and an unknown stored theme is still there
C28_Witness ==
  /\ i18n.isClientHydrated
  /\ i18n.last = "setLanguage"
  /\ i18n.language = "zh"
  /\ i18n.storedLanguage = "zh"
  /\ i18n.storedTheme = "sepia"

(***************************************************************************)
(* C30                                                                     *)
(***************************************************************************)
\* the caller gave a system prompt, the empty string not being one
SystemGiven == http.params.system # Undefined /\ http.params.system.s # <<>>

\* C30: generateText sends a POST request whenever temperature or max_tokens
\* is left to its default or a system prompt is given, and the GET request
\* exactly when no system prompt is given and temperature and max_tokens are
\* both explicitly 0.
C30_GetOnlyForExplicitZeros ==
  http.method # "none" =>
    /\ http.method \in {"GET", "POST"}
    /\ (\/ http.params.temperature = Undefined
        \/ http.params.max_tokens = Undefined
        \/ SystemGiven) => http.method = "POST"
    /\ http.method = "GET" <=>
         (/\ ~SystemGiven
          /\ http.params.temperature = JNum(0)
          /\ http.params.max_tokens = JNum(0))

\* a GET request was answered: system is the empty string, both numbers are 0
C30_Witness ==
  /\ http.method = "GET"
  /\ http.stage = "returned"
  /\ http.params.system = JStr(<<>>)
  /\ http.params.temperature = JNum(0)

(***************************************************************************)
(* PollinationsService.analyzeImage, getImageModels and getTextModels      *)
(***************************************************************************)
ServiceFns == {"analyzeImage", "getImageModels", "getTextModels"}

\* Object.values(imageModels) and Object.values(textModels), in key order
imageModelValues ==
  JArr(<<JStr(<<"flux">>), JStr(<<"flux">>), JStr(<<"turbo">>), JStr(<<"playground">>)>>)
textModelValues ==
  JArr(<<JStr(<<"openai">>), JStr(<<"openai">>), JStr(<<"mistral">>), JStr(<<"claude">>)>>)

\* the default of analyzeImage's second parameter
DefaultPrompt == JStr(<<"describe">>)

\* the string analyzeImage returns when the answer holds no text
NoAnalysis == JStr(<<"none">>)

\* the template string analyzeImage builds from its arguments
Description(imageUrl, prompt) == [k |-> "template", imageUrl |-> imageUrl, prompt |-> prompt]

\* v?.key: undefined unless v is an object, which is asked for its member
OptionalMember(v, key) == IF v.k = "object" THEN Get(v.o, key) ELSE Undefined

\* v?.[0]: undefined unless v is an array, which is asked for its first element
OptionalFirst(v) == IF v.k = "array" /\ Len(v.a) > 0 THEN v.a[1] ELSE Undefined

\* data.choices?.[0]?.message?.content || data.response || '...'
AnalysisOf(data) ==
  LET content == OptionalMember(OptionalMember(OptionalFirst(OptionalMember(data, "choices")),
                                               "message"), "content")
      response == OptionalMember(data, "response")
  IN  IF Truthy(content) THEN content ELSE IF Truthy(response) THEN response ELSE NoAnalysis

\* an answer of the chat endpoint holding the text content
ChatAnswer(content) ==
  JObj("choices" :> JArr(<<JObj("message" :> JObj("content" :> content))>>))

\* what response.json() yields: a body that is not JSON makes it reject
NotJson == [k |-> "notjson"]
ServiceBodies ==
  {NotJson, Null, JObj(EmptyObject),
   ChatAnswer(JStr(<<"txt">>)), ChatAnswer(JStr(<<>>)),
   JObj(("choices" :> JArr(<<>>)) @@ ("response" :> JStr(<<"r">>))),
   JArr(<<JStr(<<"flux">>), JStr(<<"new">>)>>)}

\* no value was returned yet
NoReturn == [k |-> "pending"]

\* one of the three methods is called and nothing else is going on
InitService ==
  /\ flow = [i \in Invocations |-> "none"]
  /\ input = [i \in Invocations |-> NoInput]
  /\ pc = [i \in Invocations |-> "Idle"]
  /\ lang = [i \in Invocations |-> ""]
  /\ request = [i \in Invocations |-> NoRequest]
  /\ calls = [i \in Invocations |-> 0]
  /\ responseContent = [i \in Invocations |-> <<>>]
  /\ parsedJson = [i \in Invocations |-> Undefined]
  /\ validationResult = [i \in Invocations |-> NoValidation]
  /\ promise = [i \in Invocations |-> "none"]
  /\ result = [i \in Invocations |-> NoResult]
  /\ outcome = [i \in Invocations |-> "pending"]
  /\ path = [i \in Invocations |-> <<>>]
  /\ \E fn \in ServiceFns :
     \E imageUrl \in IF fn = "analyzeImage" THEN {"u1", "u2"} ELSE {""} :
     \E prompt \in IF fn = "analyzeImage" THEN {Undefined, JStr(<<"p">>)} ELSE {Undefined} :
       http = [stage |-> "called", fn |-> fn, imageUrl |-> imageUrl,
               prompt |-> IF fn = "analyzeImage" THEN Defaulted(prompt, DefaultPrompt) ELSE prompt,
               method |-> "none", network |-> "none", status |-> 0,
               data |-> Undefined, out |-> NoReturn]
  /\ AppIdle

\* a catch block that hands the error on to the caller
Rethrown == [http EXCEPT !.stage = "thrown"]

\* the catch blocks: the description built from the arguments, or the built-in list
Recovered ==
  [http EXCEPT !.stage = "returned",
               !.out = CASE http.fn = "analyzeImage" -> Description(http.imageUrl, http.prompt)
                         [] http.fn = "getImageModels" -> imageModelValues
                         [] http.fn = "getTextModels" -> textModelValues]

\* fetch(...) is issued: a POST of the chat request, a GET of the model list
ServiceFetch ==
  /\ http.stage = "called"
  /\ http' = [http EXCEPT !.stage = "fetching",
                          !.method = IF http.fn = "analyzeImage" THEN "POST" ELSE "GET"]
  /\ UNCHANGED <<flowVars, appVars>>

\* the network fails: fetch rejects inside the try block
ServiceFetchRejects ==
  /\ http.stage = "fetching"
  /\ http' = [Recovered EXCEPT !.network = "failed"]
  /\ UNCHANGED <<flowVars, appVars>>

\* the endpoint answers with some status and some body
ServiceFetchResolves ==
  /\ http.stage = "fetching"
  /\ \E status \in Statuses : \E data \in ServiceBodies :
       http' = [http EXCEPT !.stage = "responded", !.network = "ok",
                            !.status = status, !.data = data]
  /\ UNCHANGED <<flowVars, appVars>>

\* if (!response.ok) throw new Error(...), inside the try block
ServiceCheckOk ==
  /\ http.stage = "responded"
  /\ http' = IF ResponseOk(http.status) THEN [http EXCEPT !.stage = "reading"] ELSE Recovered
  /\ UNCHANGED <<flowVars, appVars>>

\* response.json() resolves; reading a member of null throws inside the try block
JsonResolves ==
  /\ http.stage = "reading"
  /\ http.data # NotJson
  /\ http' = IF http.fn # "analyzeImage"
               THEN [http EXCEPT !.stage = "returned", !.out = http.data]
               ELSE IF http.data = Null
                      THEN Recovered
                      ELSE [http EXCEPT !.stage = "returned", !.out = AnalysisOf(http.data)]
  /\ UNCHANGED <<flowVars, appVars>>

\* response.json() rejects: the body is not JSON, or the connection breaks
JsonRejects ==
  /\ http.stage = "reading"
  /\ http' = [Recovered EXCEPT !.network = IF http.data = NotJson THEN "ok" ELSE "failed"]
  /\ UNCHANGED <<flowVars, appVars>>

NextService ==
  \/ ServiceFetch
  \/ ServiceFetchRejects
  \/ ServiceFetchResolves
  \/ ServiceCheckOk
  \/ JsonResolves
  \/ JsonRejects

SpecService == InitService /\ [][NextService]_vars

(***************************************************************************)
(* C29                                                                     *)
(***************************************************************************)
\* the network failed, or the endpoint answered with a non-success status
CallFailed ==
  \/ http.network = "failed"
  \/ http.network = "ok" /\ ~ResponseOk(http.status)

\* C29: analyzeImage, getImageModels and getTextModels never throw; when the
\* network failed or the status is not a success, analyzeImage returns the
\* description built from its own arguments and the getters return the
\* built-in model lists.
C29_ServiceNeverThrows ==
  /\ http.stage # "thrown"
  /\ http.stage = "returned" =>
       /\ http.out # NoReturn
       /\ CallFailed =>
            /\ http.fn = "analyzeImage" => http.out = Description(http.imageUrl, http.prompt)
            /\ http.fn = "getImageModels" => http.out = imageModelValues
            /\ http.fn = "getTextModels" => http.out = textModelValues

\* getTextModels was answered with status 500 and returned the built-in list
C29_Witness ==
  /\ http.stage = "returned"
  /\ http.fn = "getTextModels"
  /\ http.network = "ok"
  /\ http.status = 500
  /\ http.out = textModelValues

====
